---------------------------- MODULE Spec2Model ----------------------------
(***************************************************************************)
(* The SIRS LLM agent: the process bridge (SirsEngine.execute), the prompt *)
(* composer, the LLM client and the sequencer (AgentCore.process_query).   *)
(*                                                                         *)
(* A Python str is a sequence of one-character strings, so that parsing    *)
(* and formatting are computed character by character.  A JSON value (and  *)
(* the Python object it decodes to) is a record tagged by its field t.     *)
(***************************************************************************)
EXTENDS Integers, Sequences, FiniteSets, TLC

(***************************************************************************)
(* Python values                                                           *)
(***************************************************************************)
None == [t |-> "null"]
JBool(b) == [t |-> "bool", b |-> b]
JNum(n) == [t |-> "num", n |-> n]
JStr(s) == [t |-> "str", s |-> s]
JList(xs) == [t |-> "list", items |-> xs]
JDict(ms) == [t |-> "dict", members |-> ms]
\* a float literal of the source, mant * 10^exp (0.85 is PyFloat(85, -2))
PyFloat(mant, exp) == [t |-> "float", mant |-> mant, exp |-> exp]
\* a Python object the json module has no encoding for (a set, an instance)
PyObject == [t |-> "object"]
\* a raised exception, and the text str(e) gives for it
Exc(name, text) == [t |-> "exception", name |-> name, text |-> text]
\* a local that has not been assigned yet
Unset == [t |-> "unset"]

IsExc(v) == v.t = "exception"

\* dict lookup and update: a dict keeps its keys in insertion order, and
\* assigning to a key that is present keeps the key's position
HasKey(d, k) == \E i \in 1..Len(d.members) : d.members[i][1] = k

Lookup(d, k) == d.members[CHOOSE i \in 1..Len(d.members) : d.members[i][1] = k][2]

DictSet(ms, k, v) ==
    IF \E i \in 1..Len(ms) : ms[i][1] = k
    THEN [i \in 1..Len(ms) |-> IF ms[i][1] = k THEN <<k, v>> ELSE ms[i]]
    ELSE Append(ms, <<k, v>>)

(***************************************************************************)
(* json.loads: the decoder of the standard library, for the JSON texts     *)
(* whose numbers are integers and whose escapes are \" \\ \/ \n \r \t \f   *)
(***************************************************************************)
Whitespace == {" ", "\t", "\n", "\r"}
ControlChars == {"\t", "\n", "\r", "\f"}
Digits == {"0", "1", "2", "3", "4", "5", "6", "7", "8", "9"}

DigitVal(c) ==
    CASE c = "0" -> 0 [] c = "1" -> 1 [] c = "2" -> 2 [] c = "3" -> 3
      [] c = "4" -> 4 [] c = "5" -> 5 [] c = "6" -> 6 [] c = "7" -> 7
      [] c = "8" -> 8 [] c = "9" -> 9

DigitChar(d) ==
    CASE d = 0 -> "0" [] d = 1 -> "1" [] d = 2 -> "2" [] d = 3 -> "3"
      [] d = 4 -> "4" [] d = 5 -> "5" [] d = 6 -> "6" [] d = 7 -> "7"
      [] d = 8 -> "8" [] d = 9 -> "9"

\* the characters an escape sequence of a JSON string stands for
Unescape(c) ==
    CASE c = "\"" -> "\"" [] c = "\\" -> "\\" [] c = "/" -> "/"
      [] c = "n" -> "\n" [] c = "r" -> "\r" [] c = "t" -> "\t" [] c = "f" -> "\f"

Escapable == {"\"", "\\", "/", "n", "r", "t", "f"}

\* s[i:i+1] of Python: the empty string past the end
EOF == ""
CharAt(s, i) == IF i >= 1 /\ i <= Len(s) THEN s[i] ELSE EOF

Fail == [ok |-> FALSE]
Got(v, end) == [ok |-> TRUE, v |-> v, end |-> end]

RECURSIVE SkipWs(_, _)
SkipWs(s, i) == IF CharAt(s, i) \in Whitespace THEN SkipWs(s, i + 1) ELSE i

\* does s hold the characters of word from position i on
StartsWith(s, i, word) ==
    /\ i + Len(word) - 1 <= Len(s)
    /\ \A k \in 1..Len(word) : s[i + k - 1] = word[k]

\* Inside a string that starts at start: a backslash opens an escape when
\* an even number of backslashes stand directly before it, and a character
\* is escaped when the backslash before it opens an escape
BackslashesBefore(s, start, k) ==
    LET others == {j \in start..(k - 1) : s[j] # "\\"}
        last == IF others = {} THEN start - 1
                ELSE CHOOSE j \in others : \A x \in others : x <= j
    IN  (k - 1) - last

OpensEscape(s, start, k) == s[k] = "\\" /\ BackslashesBefore(s, start, k) % 2 = 0

Escaped(s, start, k) == k > start /\ OpensEscape(s, start, k - 1)

\* the body of a string from position end on, up to its closing quote:
\* py_scanstring in strict mode
scanstring(s, end) ==
    LET quotes == {j \in end..Len(s) : s[j] = "\"" /\ ~Escaped(s, end, j)} IN
    IF quotes = {} THEN Fail
    ELSE
    LET close == CHOOSE j \in quotes : \A x \in quotes : j <= x
        body == end..(close - 1)
        wellFormed ==
            \A k \in body :
                IF Escaped(s, end, k) THEN s[k] \in Escapable
                ELSE s[k] = "\\" \/ s[k] \notin ControlChars
        kept == SelectSeq([i \in 1..(close - end) |-> end + i - 1],
                          LAMBDA k : ~OpensEscape(s, end, k))
    IN  IF ~wellFormed THEN Fail
        ELSE Got([i \in 1..Len(kept) |->
                     IF Escaped(s, end, kept[i]) THEN Unescape(s[kept[i]])
                     ELSE s[kept[i]]],
                 close + 1)

RECURSIVE ScanDigits(_, _, _)
ScanDigits(s, i, n) ==
    IF CharAt(s, i) \in Digits
    THEN ScanDigits(s, i + 1, 10 * n + DigitVal(CharAt(s, i)))
    ELSE Got(n, i)

\* NUMBER_RE, integer part: -?(0|[1-9][0-9]*)
match_number(s, idx) ==
    LET neg == CharAt(s, idx) = "-"
        start == IF neg THEN idx + 1 ELSE idx
        first == CharAt(s, start)
        m == IF first = "0" THEN Got(0, start + 1)
             ELSE IF first \in Digits THEN ScanDigits(s, start, 0)
             ELSE Fail
    IN  IF m.ok THEN Got(JNum(IF neg THEN 0 - m.v ELSE m.v), m.end) ELSE Fail

RECURSIVE scan_once(_, _)
RECURSIVE JSONObject(_, _, _)
RECURSIVE JSONArray(_, _, _)

\* the members of an object from the opening quote of a key (at end) on
JSONObject(s, end, pairs) ==
    IF CharAt(s, end) # "\"" THEN Fail
    ELSE
    LET key == scanstring(s, end + 1) IN
    IF ~key.ok THEN Fail
    ELSE
    LET colon == SkipWs(s, key.end) IN
    IF CharAt(s, colon) # ":" THEN Fail
    ELSE
    LET value == scan_once(s, SkipWs(s, colon + 1)) IN
    IF ~value.ok THEN Fail
    ELSE
    LET after == SkipWs(s, value.end)
        members == DictSet(pairs, key.v, value.v)
    IN  IF CharAt(s, after) = "}" THEN Got(JDict(members), after + 1)
        ELSE IF CharAt(s, after) # "," THEN Fail
        ELSE JSONObject(s, SkipWs(s, after + 1), members)

\* the elements of an array from the first character of an element on
JSONArray(s, end, values) ==
    LET value == scan_once(s, end) IN
    IF ~value.ok THEN Fail
    ELSE
    LET after == SkipWs(s, value.end)
        items == Append(values, value.v)
    IN  IF CharAt(s, after) = "]" THEN Got(JList(items), after + 1)
        ELSE IF CharAt(s, after) # "," THEN Fail
        ELSE JSONArray(s, SkipWs(s, after + 1), items)

scan_once(s, idx) ==
    LET nextchar == CharAt(s, idx) IN
    IF nextchar = EOF THEN Fail
    ELSE IF nextchar = "\""
         THEN LET str == scanstring(s, idx + 1)
              IN  IF str.ok THEN Got(JStr(str.v), str.end) ELSE Fail
    ELSE IF nextchar = "{"
         THEN LET first == SkipWs(s, idx + 1)
              IN  IF CharAt(s, first) = "}" THEN Got(JDict(<<>>), first + 1)
                  ELSE JSONObject(s, first, <<>>)
    ELSE IF nextchar = "["
         THEN LET first == SkipWs(s, idx + 1)
              IN  IF CharAt(s, first) = "]" THEN Got(JList(<<>>), first + 1)
                  ELSE JSONArray(s, first, <<>>)
    ELSE IF nextchar = "n" /\ StartsWith(s, idx, <<"n", "u", "l", "l">>)
         THEN Got(None, idx + 4)
    ELSE IF nextchar = "t" /\ StartsWith(s, idx, <<"t", "r", "u", "e">>)
         THEN Got(JBool(TRUE), idx + 4)
    ELSE IF nextchar = "f" /\ StartsWith(s, idx, <<"f", "a", "l", "s", "e">>)
         THEN Got(JBool(FALSE), idx + 5)
    ELSE match_number(s, idx)

JSONDecodeError == Exc("JSONDecodeError", <<"E", "x", "p", "e", "c", "t", "i", "n", "g", " ", "v", "a", "l", "u", "e">>)

\* json.loads(s): the decoded value, or the JSONDecodeError it raises
JsonLoads(s) ==
    LET obj == scan_once(s, SkipWs(s, 1)) IN
    IF ~obj.ok THEN JSONDecodeError
    ELSE IF SkipWs(s, obj.end) # Len(s) + 1 THEN JSONDecodeError
    ELSE obj.v

(***************************************************************************)
(* json.dumps with the default separators (", " and ": ")                  *)
(***************************************************************************)
RECURSIVE Serializable(_)
Serializable(v) ==
    CASE v.t \in {"null", "bool", "num", "str"} -> TRUE
      [] v.t = "list" -> \A i \in 1..Len(v.items) : Serializable(v.items[i])
      [] v.t = "dict" -> \A i \in 1..Len(v.members) : Serializable(v.members[i][2])
      [] OTHER -> FALSE

RECURSIVE NatChars(_)
NatChars(n) == IF n < 10 THEN <<DigitChar(n)>>
               ELSE Append(NatChars(n \div 10), DigitChar(n % 10))

IntChars(n) == IF n < 0 THEN <<"-">> \o NatChars(0 - n) ELSE NatChars(n)

EscapeChar(c) ==
    CASE c = "\"" -> <<"\\", "\"">>
      [] c = "\\" -> <<"\\", "\\">>
      [] c = "\n" -> <<"\\", "n">>
      [] c = "\r" -> <<"\\", "r">>
      [] c = "\t" -> <<"\\", "t">>
      [] c = "\f" -> <<"\\", "f">>
      [] OTHER -> <<c>>

\* the escaped characters of s, one after the other
RECURSIVE EscapeBody(_)
EscapeBody(s) ==
    IF s = <<>> THEN <<>>
    ELSE IF Len(s) = 1 THEN EscapeChar(s[1])
    ELSE LET half == Len(s) \div 2
         IN  EscapeBody(SubSeq(s, 1, half)) \o EscapeBody(SubSeq(s, half + 1, Len(s)))

encode_basestring_ascii(s) == <<"\"">> \o EscapeBody(s) \o <<"\"">>

RECURSIVE Encode(_)
RECURSIVE EncodeItems(_, _)
RECURSIVE EncodeMembers(_, _)

EncodeItems(items, i) ==
    IF i > Len(items) THEN <<>>
    ELSE (IF i > 1 THEN <<",", " ">> ELSE <<>>) \o Encode(items[i]) \o EncodeItems(items, i + 1)

EncodeMembers(ms, i) ==
    IF i > Len(ms) THEN <<>>
    ELSE (IF i > 1 THEN <<",", " ">> ELSE <<>>)
         \o encode_basestring_ascii(ms[i][1]) \o <<":", " ">> \o Encode(ms[i][2])
         \o EncodeMembers(ms, i + 1)

Encode(v) ==
    CASE v.t = "null" -> <<"n", "u", "l", "l">>
      [] v.t = "bool" -> IF v.b THEN <<"t", "r", "u", "e">> ELSE <<"f", "a", "l", "s", "e">>
      [] v.t = "num" -> IntChars(v.n)
      [] v.t = "str" -> encode_basestring_ascii(v.s)
      [] v.t = "list" -> <<"[">> \o EncodeItems(v.items, 1) \o <<"]">>
      [] v.t = "dict" -> <<"{">> \o EncodeMembers(v.members, 1) \o <<"}">>

\* json.dumps(v): the text (as a str value), or the TypeError it raises
JsonDumps(v) ==
    IF Serializable(v) THEN JStr(Encode(v))
    ELSE Exc("TypeError", <<"O", "b", "j", "e", "c", "t", " ", "i", "s", " ", "n", "o", "t", " ", "J", "S", "O", "N", " ", "s", "e", "r", "i", "a", "l", "i", "z", "a", "b", "l", "e">>)

(***************************************************************************)
(* Python operations the handlers use                                      *)
(***************************************************************************)
AttributeError == Exc("AttributeError", <<"o", "b", "j", "e", "c", "t", " ", "h", "a", "s", " ", "n", "o", " ", "a", "t", "t", "r", "i", "b", "u", "t", "e", " ", "'", "g", "e", "t", "'">>)
IndexError == Exc("IndexError", <<"l", "i", "s", "t", " ", "i", "n", "d", "e", "x", " ", "o", "u", "t", " ", "o", "f", " ", "r", "a", "n", "g", "e">>)
KeyError == Exc("KeyError", <<"0">>)
NotIterable == Exc("TypeError", <<"a", "r", "g", "u", "m", "e", "n", "t", " ", "i", "s", " ", "n", "o", "t", " ", "i", "t", "e", "r", "a", "b", "l", "e">>)
NotSubscriptable == Exc("TypeError", <<"o", "b", "j", "e", "c", "t", " ", "i", "s", " ", "n", "o", "t", " ", "s", "u", "b", "s", "c", "r", "i", "p", "t", "a", "b", "l", "e">>)
BadIndex == Exc("TypeError", <<"i", "n", "d", "i", "c", "e", "s", " ", "m", "u", "s", "t", " ", "b", "e", " ", "i", "n", "t", "e", "g", "e", "r", "s">>)

\* d.get(k, default)
PyGet(d, k, default) ==
    IF IsExc(d) THEN d
    ELSE IF d.t # "dict" THEN AttributeError
    ELSE IF HasKey(d, k) THEN Lookup(d, k) ELSE default

\* v[0]
PyFirst(v) ==
    IF IsExc(v) THEN v
    ELSE CASE v.t = "list" -> IF v.items = <<>> THEN IndexError ELSE v.items[1]
           [] v.t = "str" -> IF v.s = <<>> THEN IndexError ELSE JStr(<<v.s[1]>>)
           [] v.t = "dict" -> KeyError
           [] OTHER -> NotSubscriptable

\* is sub a substring of s
IsSubstring(sub, s) ==
    \E i \in 1..(Len(s) + 1) : StartsWith(s, i, sub)

\* the values the operator in accepts on its right (the others raise TypeError)
IsContainer(v) == v.t \in {"dict", "list", "str"}

\* k in v, for a str k and a container v
PyIn(k, v) ==
    CASE v.t = "dict" -> HasKey(v, k)
      [] v.t = "list" -> \E i \in 1..Len(v.items) : v.items[i] = JStr(k)
      [] v.t = "str" -> IsSubstring(k, v.s)

\* v[k], for a str k and a v that k is in
PySubscript(v, k) ==
    IF v.t = "dict" THEN Lookup(v, k) ELSE BadIndex

(***************************************************************************)
(* Configuration and messages                                              *)
(***************************************************************************)
\* "./sirs_engine"
SIRS_EXECUTABLE_PATH == <<".", "/", "s", "i", "r", "s", "_", "e", "n", "g", "i", "n", "e">>
\* "LLM-Agent/models/sample_model.sirs.l"
AGENT_MODEL_PATH == <<"L", "L", "M", "-", "A", "g", "e", "n", "t", "/", "m", "o", "d", "e", "l", "s", "/", "s", "a", "m", "p", "l", "e", "_", "m", "o", "d", "e", "l", ".", "s", "i", "r", "s", ".", "l">>
\* "No response from LLM."
NO_RESPONSE == <<"N", "o", " ", "r", "e", "s", "p", "o", "n", "s", "e", " ", "f", "r", "o", "m", " ", "L", "L", "M", ".">>
CONFIDENCE_SCORE == PyFloat(85, -2)

ErrorDict(message) == JDict(<< <<<<"e", "r", "r", "o", "r">>, JStr(message)>> >>)

\* {"error": f"SIRS executable not found at {self.executable_path}"}
ExecutableMissing(executable_path) ==
    ErrorDict(<<"S", "I", "R", "S", " ", "e", "x", "e", "c", "u", "t", "a", "b", "l", "e", " ", "n", "o", "t", " ", "f", "o", "u", "n", "d", " ", "a", "t", " ">> \o executable_path)

\* {"error": f"SIRS model file not found at {model_path}"}
ModelMissing(path) ==
    ErrorDict(<<"S", "I", "R", "S", " ", "m", "o", "d", "e", "l", " ", "f", "i", "l", "e", " ", "n", "o", "t", " ", "f", "o", "u", "n", "d", " ", "a", "t", " ">> \o path)

\* {"error": "SIRS engine process failed", "details": stderr}
ProcessError(stderr) ==
    JDict(<< <<<<"e", "r", "r", "o", "r">>, JStr(<<"S", "I", "R", "S", " ", "e", "n", "g", "i", "n", "e", " ", "p", "r", "o", "c", "e", "s", "s", " ", "f", "a", "i", "l", "e", "d">>)>>,
             <<<<"d", "e", "t", "a", "i", "l", "s">>, JStr(stderr)>> >>)

\* {"error": f"Could not find the SIRS executable at '{self.executable_path}'."}
SpawnError(executable_path) ==
    ErrorDict(<<"C", "o", "u", "l", "d", " ", "n", "o", "t", " ", "f", "i", "n", "d", " ", "t", "h", "e", " ", "S", "I", "R", "S", " ", "e", "x", "e", "c", "u", "t", "a", "b", "l", "e", " ", "a", "t", " ", "'">> \o executable_path \o <<"'", ".">>)

\* {"error": "Failed to decode JSON response from SIRS engine."}
MalformedOutput == ErrorDict(<<"F", "a", "i", "l", "e", "d", " ", "t", "o", " ", "d", "e", "c", "o", "d", "e", " ", "J", "S", "O", "N", " ", "r", "e", "s", "p", "o", "n", "s", "e", " ", "f", "r", "o", "m", " ", "S", "I", "R", "S", " ", "e", "n", "g", "i", "n", "e", ".">>)

\* InternalError without the text of the exception
InternalErrorNoText(e) ==
    ErrorDict(<<"A", "n", " ", "u", "n", "e", "x", "p", "e", "c", "t", "e", "d", " ", "e", "r", "r", "o", "r", " ", "o", "c", "c", "u", "r", "r", "e", "d", " ", "w", "h", "i", "l", "e", " ", "r", "u", "n", "n", "i", "n", "g", " ", "t", "h", "e", " ", "S", "I", "R", "S", " ", "e", "n", "g", "i", "n", "e", ".">>)

\* {"error": f"An unexpected error occurred while running the SIRS engine: {e}"}
InternalError(e) ==
    ErrorDict(<<"A", "n", " ", "u", "n", "e", "x", "p", "e", "c", "t", "e", "d", " ", "e", "r", "r", "o", "r", " ", "o", "c", "c", "u", "r", "r", "e", "d", " ", "w", "h", "i", "l", "e", " ", "r", "u", "n", "n", "i", "n", "g", " ", "t", "h", "e", " ", "S", "I", "R", "S", " ", "e", "n", "g", "i", "n", "e", ":", " ">> \o e.text)

\* {"error": "Failed to connect to LM Studio."}
ConnectionError == ErrorDict(<<"F", "a", "i", "l", "e", "d", " ", "t", "o", " ", "c", "o", "n", "n", "e", "c", "t", " ", "t", "o", " ", "L", "M", " ", "S", "t", "u", "d", "i", "o", ".">>)

(***************************************************************************)
(* SirsEngine.execute, the parts that compute                              *)
(***************************************************************************)
\* HandleException without its except json.JSONDecodeError clause
HandleExceptionNoDecodeClause(e, executable_path) ==
    IF e.name = "FileNotFoundError" THEN SpawnError(executable_path)
    ELSE InternalError(e)

\* HandleException without its except FileNotFoundError clause
HandleExceptionNoSpawnClause(e, executable_path) ==
    IF e.name = "JSONDecodeError" THEN MalformedOutput
    ELSE InternalError(e)

\* the except clauses of execute, in their order
HandleException(e, executable_path) ==
    IF e.name = "FileNotFoundError" THEN SpawnError(executable_path)
    ELSE IF e.name = "JSONDecodeError" THEN MalformedOutput
    ELSE InternalError(e)

\* Classify with the parse before the exit code: JSON on standard output
\* wins over a failing exit code
ClassifyParseFirst(returncode, stdout, stderr, executable_path) ==
    LET parsed == JsonLoads(stdout) IN
    IF ~IsExc(parsed) THEN parsed
    ELSE IF returncode # 0 THEN ProcessError(stderr)
    ELSE HandleException(parsed, executable_path)

\* Classify returning standard output as it is, without json.loads
ClassifyUnparsed(returncode, stdout, stderr, executable_path) ==
    IF returncode # 0 THEN ProcessError(stderr)
    ELSE IF IsExc(JsonLoads(stdout)) THEN MalformedOutput
    ELSE JStr(stdout)

\* the exception json.loads(stdout) raises inside the try block, if the
\* exit code lets execute come to it
Raised(returncode, stdout) ==
    IF returncode = 0 /\ IsExc(JsonLoads(stdout)) THEN JsonLoads(stdout) ELSE Unset

\* command = [self.executable_path, "--model", model_path]
Command(executable_path, path) == <<executable_path, <<"-", "-", "m", "o", "d", "e", "l">>, path>>

\* what execute does with a finished exchange: the exit code first, then
\* the parse of standard output
Classify(returncode, stdout, stderr, executable_path) ==
    IF returncode # 0 THEN ProcessError(stderr)
    ELSE LET parsed == JsonLoads(stdout)
         IN  IF IsExc(parsed) THEN HandleException(parsed, executable_path)
             ELSE parsed

(***************************************************************************)
(* AgentCore, the parts that compute                                       *)
(***************************************************************************)
\* input_data = {"context": context}
BuildRequest(ctx) == JDict(<< <<<<"c", "o", "n", "t", "e", "x", "t">>, ctx>> >>)

\* the check of the bridge's result in _run_sirs_inference: the result, or
\* the exception the check raises
InspectResult(res) ==
    IF ~IsContainer(res) THEN NotIterable
    ELSE IF PyIn(<<"e", "r", "r", "o", "r">>, res) /\ IsExc(PySubscript(res, <<"e", "r", "r", "o", "r">>))
         THEN PySubscript(res, <<"e", "r", "r", "o", "r">>)
    ELSE res

\* _prepare_llm_prompt: the template around the prompt and the dumped output
PrepareLlmPrompt(user_prompt, output) ==
    LET dumped == JsonDumps(output) IN
    IF IsExc(dumped) THEN dumped
    ELSE JStr(<<"U", "s", "e", "r", " ", "P", "r", "o", "m", "p", "t", ":", " ">> \o user_prompt
              \o <<"\n", "\n", "S", "I", "R", "S", " ", "M", "o", "d", "e", "l", " ", "I", "n", "f", "e", "r", "e", "n", "c", "e", ":", " ">> \o dumped.s
              \o <<"\n", "\n", "B", "a", "s", "e", "d", " ", "o", "n", " ", "t", "h", "e", " ", "p", "r", "o", "b", "a", "b", "i", "l", "i", "s", "t", "i", "c", " ", "i", "n", "f", "e", "r", "e", "n", "c", "e", " ", "a", "b", "o", "v", "e", ",", " ", "p", "r", "o", "v", "i", "d", "e", " ", "a", " ", "c", "o", "m", "p", "r", "e", "h", "e", "n", "s", "i", "v", "e", " ", "a", "n", "s", "w", "e", "r", " ", "t", "o", " ", "t", "h", "e", " ", "u", "s", "e", "r", "'", "s", " ", "p", "r", "o", "m", "p", "t", ".", "\n">>)

\* what _query_lm_studio returns for an HTTP exchange: reply.kind is
\* "transport" when requests.post raised, else reply is an HTTP response
HttpError(status) == status >= 400 /\ status < 600

QueryLmStudio(reply) ==
    IF reply.kind = "transport" THEN ConnectionError
    ELSE IF HttpError(reply.status) THEN ConnectionError
    ELSE LET parsed == JsonLoads(reply.body)
         IN  IF IsExc(parsed) THEN ConnectionError ELSE parsed

\* ResponseText with an empty list as the default of "choices"
ResponseTextEmptyDefault(llm_response) ==
    PyGet(PyGet(PyFirst(PyGet(llm_response, <<"c", "h", "o", "i", "c", "e", "s">>, JList(<<>>))),
                <<"m", "e", "s", "s", "a", "g", "e">>, JDict(<<>>)),
          <<"c", "o", "n", "t", "e", "n", "t">>, JStr(NO_RESPONSE))

\* ResponseText reading the key "text" of the message
ResponseTextWrongKey(llm_response) ==
    PyGet(PyGet(PyFirst(PyGet(llm_response, <<"c", "h", "o", "i", "c", "e", "s">>, JList(<<JDict(<<>>)>>))),
                <<"m", "e", "s", "s", "a", "g", "e">>, JDict(<<>>)),
          <<"t", "e", "x", "t">>, JStr(NO_RESPONSE))

\* llm_response.get("choices", [{}])[0].get("message", {}).get("content", ...)
ResponseText(llm_response) ==
    PyGet(PyGet(PyFirst(PyGet(llm_response, <<"c", "h", "o", "i", "c", "e", "s">>, JList(<<JDict(<<>>)>>))),
                <<"m", "e", "s", "s", "a", "g", "e">>, JDict(<<>>)),
          <<"c", "o", "n", "t", "e", "n", "t">>, JStr(NO_RESPONSE))

\* the final_response of process_query, or the exception building it raises
FinalResponse(sid, llm_response) ==
    LET text == ResponseText(llm_response) IN
    IF IsExc(text) THEN text
    ELSE JDict(<< <<<<"s", "e", "s", "s", "i", "o", "n", "_", "i", "d">>, JStr(sid)>>,
                  <<<<"r", "e", "s", "p", "o", "n", "s", "e", "_", "t", "e", "x", "t">>, text>>,
                  <<<<"c", "o", "n", "f", "i", "d", "e", "n", "c", "e", "_", "s", "c", "o", "r", "e">>, CONFIDENCE_SCORE>> >>)

(***************************************************************************)
(* Bounds and the inputs drawn from them                                   *)
(***************************************************************************)
\* the number of call slots (requests the service boundary has accepted)
NumCalls == 2

Calls == 1..NumCalls

\* the model paths a caller of execute passes: the agent's, and the one of
\* test_execute_model_not_found
ModelPaths == {AGENT_MODEL_PATH, <<"n", "o", "n", "_", "e", "x", "i", "s", "t", "e", "n", "t", "_", "m", "o", "d", "e", "l", ".", "s", "i", "r", "s", ".", "l">>}

Paths == {SIRS_EXECUTABLE_PATH} \cup ModelPaths

SessionIds == {<<"s", "1">>, <<"s", "2">>}

Prompts == {<<"W", "h", "a", "t", " ", "i", "s", " ", "t", "h", "e", " ", "w", "e", "a", "t", "h", "e", "r", "?">>}

\* context: str | None
Contexts == {None, JStr(<<"L", "o", "n", "d", "o", "n">>)}

\* the input_data a direct caller of execute passes: the dict of the
\* integration test, and a dict holding an object json cannot encode
InputDatas ==
    { JDict(<< <<<<"p", "a", "r", "a", "m", "1">>, JStr(<<"v", "a", "l", "u", "e", "1">>)>>, <<<<"p", "a", "r", "a", "m", "2">>, JNum(123)>> >>),
      JDict(<< <<<<"c", "o", "n", "t", "e", "x", "t">>, PyObject>> >>) }

ReturnCodes == {0, 1}

\* what the child may have written to standard output
StdoutTexts ==
    { <<"{", "\"", "x", "\"", ":", "1", "}">>,
      <<"n", "o", "t", " ", "j", "s", "o", "n">>,
      <<>>,
      <<"{", "\"", "x", "\"", ":">>,
      <<"3">>,
      <<"\"", "e", "r", "r", "o", "r", "\"">>,
      <<"[", "1", "]">>,
      <<"[", "\"", "e", "r", "r", "o", "r", "\"", "]">>,
      <<"n", "u", "l", "l">>,
      <<"{", "\"", "e", "r", "r", "o", "r", "\"", ":", "\"", "F", "a", "i", "l", "e", "d", " ", "t", "o", " ", "d", "e", "c", "o", "d", "e", " ", "J", "S", "O", "N", " ", "r", "e", "s", "p", "o", "n", "s", "e", " ", "f", "r", "o", "m", " ", "S", "I", "R", "S", " ", "e", "n", "g", "i", "n", "e", ".", "\"", "}">> }

StderrTexts == {<<>>, <<"E", "r", "r", "o", "r", ":", " ", "S", "o", "m", "e", "t", "h", "i", "n", "g", " ", "w", "e", "n", "t", " ", "w", "r", "o", "n", "g", ".">>}

\* requests.post raised before any response arrived
Transport == [kind |-> "transport"]
HttpResponse(status, body) == [kind |-> "http", status |-> status, body |-> body]

\* statuses whose body the caller may come to read, and statuses that
\* raise_for_status turns into an exception before the body is read
HttpStatuses == {200, 304, 404, 500}

LlmBodies ==
    { <<"{", "\"", "c", "h", "o", "i", "c", "e", "s", "\"", ":", "[", "{", "\"", "m", "e", "s", "s", "a", "g", "e", "\"", ":", "{", "\"", "c", "o", "n", "t", "e", "n", "t", "\"", ":", "\"", "I", "t", " ", "w", "i", "l", "l", " ", "r", "a", "i", "n", ".", "\"", "}", "}", "]", "}">>,
      <<"{", "}">>,
      <<"{", "\"", "c", "h", "o", "i", "c", "e", "s", "\"", ":", "[", "]", "}">>,
      <<"{", "\"", "c", "h", "o", "i", "c", "e", "s", "\"", ":", "[", "{", "}", "]", "}">>,
      <<"{", "\"", "c", "h", "o", "i", "c", "e", "s", "\"", ":", "[", "{", "\"", "m", "e", "s", "s", "a", "g", "e", "\"", ":", "{", "}", "}", "]", "}">>,
      <<"{", "\"", "c", "h", "o", "i", "c", "e", "s", "\"", ":", "[", "{", "\"", "m", "e", "s", "s", "a", "g", "e", "\"", ":", "{", "\"", "c", "o", "n", "t", "e", "n", "t", "\"", ":", "n", "u", "l", "l", "}", "}", "]", "}">>,
      <<"[", "]">>,
      <<>> }

\* the bodies that come with an error status: a complete answer, and none
ErrorBodies == { <<"{", "\"", "c", "h", "o", "i", "c", "e", "s", "\"", ":", "[", "{", "\"", "m", "e", "s", "s", "a", "g", "e", "\"", ":", "{", "\"", "c", "o", "n", "t", "e", "n", "t", "\"", ":", "\"", "I", "t", " ", "w", "i", "l", "l", " ", "r", "a", "i", "n", ".", "\"", "}", "}", "]", "}">>, <<>> }

LlmReplies ==
    {Transport}
        \cup {HttpResponse(st, b) : st \in {h \in HttpStatuses : ~HttpError(h)}, b \in LlmBodies}
        \cup {HttpResponse(st, b) : st \in {h \in HttpStatuses : HttpError(h)}, b \in ErrorBodies}

\* exceptions of the library calls inside the try block of execute
FileNotFoundError == Exc("FileNotFoundError", <<"[", "E", "r", "r", "n", "o", " ", "2", "]", " ", "N", "o", " ", "s", "u", "c", "h", " ", "f", "i", "l", "e", " ", "o", "r", " ", "d", "i", "r", "e", "c", "t", "o", "r", "y">>)
PermissionError == Exc("PermissionError", <<"[", "E", "r", "r", "n", "o", " ", "1", "3", "]", " ", "P", "e", "r", "m", "i", "s", "s", "i", "o", "n", " ", "d", "e", "n", "i", "e", "d">>)
UnicodeDecodeError == Exc("UnicodeDecodeError", <<"'", "u", "t", "f", "-", "8", "'", " ", "c", "o", "d", "e", "c", " ", "c", "a", "n", "'", "t", " ", "d", "e", "c", "o", "d", "e", " ", "b", "y", "t", "e", " ", "0", "x", "f", "f">>)
Started == [t |-> "started"]

\* what subprocess.Popen can do, given whether the executable is there
PopenOutcomes(files) ==
    IF SIRS_EXECUTABLE_PATH \in files THEN {Started, PermissionError}
    ELSE {FileNotFoundError}

(***************************************************************************)
(* State                                                                   *)
(***************************************************************************)
VARIABLES
    fs,            \* the paths that exist (os.path.exists)
    pc,            \* where each call is
    entry,         \* the entry point a call came in by
    session_id, prompt, context,      \* the arguments of process_query
    model_path, input_data,           \* the arguments of execute
    exists_calls,  \* the os.path.exists calls of the call: <<path, answer>>
    child,         \* the child process of a call: none, running or reaped
    spawned,       \* how many children the call has started
    stdin,         \* the text json.dumps made for the child's standard input
    command,       \* the argument list the call started its child with
    caught,        \* the exception an except clause of execute caught
    child_in,      \* what the child has been given on its standard input
    proc,          \* returncode, stdout and stderr once communicate returned
    result,        \* what execute returns
    sirs_output, llm_prompt, llm_response,   \* the locals of process_query
    response,      \* the reply requests.post got: an HTTP response, or none
    posts,         \* how many POSTs the call has sent
    trace,         \* the stages of process_query the call has run, in order
    ret,           \* what the call returned or raised to its caller
    request,       \* the JSON body the query endpoint got for the call
    http_response, \* the HTTP response the query endpoint gave for the call
    cli_pc,        \* where the chat command of the CLI is
    session,       \* the --session-id of the chat command
    status_calls,  \* how many times chat has called get_agent_status
    status_result, \* what get_agent_status returned to chat
    entered,       \* the prompts chat has read, in order
    queries,       \* the queries chat has sent: <<session_id, prompt>>, in order
    cli_response,  \* what query_agent returned to chat last
    echoed         \* what chat has written to the terminal, in order

queryVars == <<session_id, prompt, context>>
bridgeVars == <<model_path, input_data, exists_calls, child, spawned, stdin, proc, result,
               command, caught, child_in>>
agentVars == <<sirs_output, llm_prompt, llm_response, response, posts, trace>>
apiVars == <<request, http_response>>
cliVars == <<cli_pc, session, status_calls, status_result, entered, queries,
             cli_response, echoed>>
vars == <<fs, pc, entry, queryVars, bridgeVars, agentVars, ret, apiVars, cliVars>>

Init ==
    /\ fs \in SUBSET Paths
    /\ pc = [c \in Calls |-> "idle"]
    /\ entry = [c \in Calls |-> "none"]
    /\ session_id = [c \in Calls |-> <<>>]
    /\ prompt = [c \in Calls |-> <<>>]
    /\ context = [c \in Calls |-> Unset]
    /\ model_path = [c \in Calls |-> <<>>]
    /\ input_data = [c \in Calls |-> Unset]
    /\ exists_calls = [c \in Calls |-> <<>>]
    /\ child = [c \in Calls |-> "none"]
    /\ spawned = [c \in Calls |-> 0]
    /\ stdin = [c \in Calls |-> Unset]
    /\ proc = [c \in Calls |-> Unset]
    /\ result = [c \in Calls |-> Unset]
    /\ command = [c \in Calls |-> <<>>]
    /\ caught = [c \in Calls |-> Unset]
    /\ child_in = [c \in Calls |-> Unset]
    /\ sirs_output = [c \in Calls |-> Unset]
    /\ llm_prompt = [c \in Calls |-> Unset]
    /\ llm_response = [c \in Calls |-> Unset]
    /\ response = [c \in Calls |-> Unset]
    /\ posts = [c \in Calls |-> 0]
    /\ trace = [c \in Calls |-> <<>>]
    /\ ret = [c \in Calls |-> Unset]
    /\ request = [c \in Calls |-> Unset]
    /\ http_response = [c \in Calls |-> Unset]
    /\ cli_pc = "idle"
    /\ session = <<>>
    /\ status_calls = 0
    /\ status_result = Unset
    /\ entered = <<>>
    /\ queries = <<>>
    /\ cli_response = Unset
    /\ echoed = <<>>

\* the endpoint is a coroutine that calls process_query without awaiting
\* anything: the event loop runs one call at a time
NoCallRunning == \A d \in Calls : pc[d] = "idle"

(***************************************************************************)
(* The environment: files appear and disappear                             *)
(***************************************************************************)
FsChange ==
    /\ \E p \in Paths : fs' = IF p \in fs THEN fs \ {p} ELSE fs \cup {p}
    /\ UNCHANGED <<apiVars, cliVars, pc, entry, queryVars, bridgeVars, agentVars, ret>>

(***************************************************************************)
(* SirsEngine.execute                                                      *)
(***************************************************************************)
\* a direct call of execute(model_path, input_data)
Execute(c) ==
    /\ NoCallRunning
    /\ \E mp \in ModelPaths, data \in InputDatas :
          /\ model_path' = [model_path EXCEPT ![c] = mp]
          /\ input_data' = [input_data EXCEPT ![c] = data]
    /\ entry' = [entry EXCEPT ![c] = "execute"]
    /\ pc' = [pc EXCEPT ![c] = "exists_executable"]
    /\ UNCHANGED <<fs, apiVars, cliVars, queryVars, exists_calls, child, spawned, stdin, proc,
                   command, caught, child_in, result,
                   agentVars, ret>>

\* CheckExecutable without its return: a missing executable is logged and
\* the call goes on
CheckExecutableNoReturn(c) ==
    /\ pc[c] = "exists_executable"
    /\ exists_calls' = [exists_calls EXCEPT
                           ![c] = Append(@, <<SIRS_EXECUTABLE_PATH, SIRS_EXECUTABLE_PATH \in fs>>)]
    /\ pc' = [pc EXCEPT ![c] = "exists_model"]
    /\ UNCHANGED <<fs, apiVars, cliVars, entry, queryVars, model_path, input_data, child, spawned,
                   stdin, proc, command, caught, child_in, result, agentVars, ret>>

\* the two checks in the other order: the model file first
CheckModelBeforeExecutable(c) ==
    /\ pc[c] = "exists_executable"
    /\ exists_calls' = [exists_calls EXCEPT
                           ![c] = Append(@, <<model_path[c], model_path[c] \in fs>>)]
    /\ IF model_path[c] \notin fs
       THEN /\ result' = [result EXCEPT ![c] = ModelMissing(model_path[c])]
            /\ pc' = [pc EXCEPT ![c] = "execute_return"]
       ELSE /\ pc' = [pc EXCEPT ![c] = "exists_model"]
            /\ UNCHANGED result
    /\ UNCHANGED <<fs, apiVars, cliVars, entry, queryVars, model_path, input_data, child, spawned,
                   stdin, proc, command, caught, child_in, agentVars, ret>>

\* if not os.path.exists(self.executable_path): return {"error": ...}
CheckExecutable(c) ==
    /\ pc[c] = "exists_executable"
    /\ exists_calls' = [exists_calls EXCEPT
                           ![c] = Append(@, <<SIRS_EXECUTABLE_PATH, SIRS_EXECUTABLE_PATH \in fs>>)]
    /\ IF SIRS_EXECUTABLE_PATH \notin fs
       THEN /\ result' = [result EXCEPT ![c] = ExecutableMissing(SIRS_EXECUTABLE_PATH)]
            /\ pc' = [pc EXCEPT ![c] = "execute_return"]
       ELSE /\ pc' = [pc EXCEPT ![c] = "exists_model"]
            /\ UNCHANGED result
    /\ UNCHANGED <<fs, apiVars, cliVars, entry, queryVars, model_path, input_data, child, spawned,
                   stdin, proc, command, caught, child_in, agentVars, ret>>

\* CheckModel without its return: a missing model file is logged and the
\* call goes on to start the child
CheckModelNoReturn(c) ==
    /\ pc[c] = "exists_model"
    /\ exists_calls' = [exists_calls EXCEPT
                           ![c] = Append(@, <<model_path[c], model_path[c] \in fs>>)]
    /\ pc' = [pc EXCEPT ![c] = "popen"]
    /\ UNCHANGED <<fs, apiVars, cliVars, entry, queryVars, model_path, input_data, child, spawned,
                   stdin, proc, command, caught, child_in, result, agentVars, ret>>

\* if not os.path.exists(model_path): return {"error": ...}
CheckModel(c) ==
    /\ pc[c] = "exists_model"
    /\ exists_calls' = [exists_calls EXCEPT
                           ![c] = Append(@, <<model_path[c], model_path[c] \in fs>>)]
    /\ IF model_path[c] \notin fs
       THEN /\ result' = [result EXCEPT ![c] = ModelMissing(model_path[c])]
            /\ pc' = [pc EXCEPT ![c] = "execute_return"]
       ELSE /\ pc' = [pc EXCEPT ![c] = "popen"]
            /\ UNCHANGED result
    /\ UNCHANGED <<fs, apiVars, cliVars, entry, queryVars, model_path, input_data, child, spawned,
                   stdin, proc, command, caught, child_in, agentVars, ret>>

\* process = subprocess.Popen(command, ...): the child runs, or Popen raises
\* and an except clause turns the exception into the returned dict
Popen(c) ==
    /\ pc[c] = "popen"
    /\ command' = [command EXCEPT ![c] = Command(SIRS_EXECUTABLE_PATH, model_path[c])]
    /\ \E outcome \in PopenOutcomes(fs) :
          IF outcome = Started
          THEN /\ child' = [child EXCEPT ![c] = "running"]
               /\ spawned' = [spawned EXCEPT ![c] = @ + 1]
               /\ pc' = [pc EXCEPT ![c] = "dumps"]
               /\ UNCHANGED <<result, caught>>
          ELSE /\ caught' = [caught EXCEPT ![c] = outcome]
               /\ result' = [result EXCEPT ![c] = HandleException(outcome, SIRS_EXECUTABLE_PATH)]
               /\ pc' = [pc EXCEPT ![c] = "execute_return"]
               /\ UNCHANGED <<child, spawned>>
    /\ UNCHANGED <<fs, apiVars, cliVars, entry, queryVars, model_path, input_data, exists_calls, stdin, proc,
                   child_in, agentVars, ret>>

\* json.dumps(input_data), the argument of communicate, evaluated after Popen
\* returned: a TypeError leaves the try block with the child still running
DumpsInput(c) ==
    /\ pc[c] = "dumps"
    /\ LET text == JsonDumps(input_data[c]) IN
       IF IsExc(text)
       THEN /\ caught' = [caught EXCEPT ![c] = text]
            /\ result' = [result EXCEPT ![c] = HandleException(text, SIRS_EXECUTABLE_PATH)]
            /\ pc' = [pc EXCEPT ![c] = "execute_return"]
            /\ UNCHANGED stdin
       ELSE /\ stdin' = [stdin EXCEPT ![c] = text]
            /\ pc' = [pc EXCEPT ![c] = "communicate"]
            /\ UNCHANGED <<result, caught>>
    /\ UNCHANGED <<fs, apiVars, cliVars, entry, queryVars, model_path, input_data, exists_calls, child, spawned,
                   proc, command, child_in, agentVars, ret>>

\* stdout, stderr = process.communicate(input=...): writes the input, closes
\* it, reads both streams to their end and waits for the child
CommunicateFrom(c, returncodes, stdouts, stderrs) ==
    /\ pc[c] = "communicate"
    /\ child_in' = [child_in EXCEPT ![c] = [data |-> stdin[c].s, closed |-> TRUE]]
    /\ child' = [child EXCEPT ![c] = "reaped"]
    /\ \/ /\ \E rc \in returncodes, out \in stdouts, err \in stderrs :
                proc' = [proc EXCEPT ![c] = [t |-> "completed", returncode |-> rc,
                                              stdout |-> out, stderr |-> err]]
          /\ pc' = [pc EXCEPT ![c] = "classify"]
          /\ UNCHANGED <<result, caught>>
       \/ \* the bytes read are not text in the locale's encoding
          /\ caught' = [caught EXCEPT ![c] = UnicodeDecodeError]
          /\ result' = [result EXCEPT ![c] = HandleException(UnicodeDecodeError, SIRS_EXECUTABLE_PATH)]
          /\ pc' = [pc EXCEPT ![c] = "execute_return"]
          /\ UNCHANGED proc
    /\ UNCHANGED <<fs, apiVars, cliVars, entry, queryVars, model_path, input_data, exists_calls, spawned, stdin,
                   command, agentVars, ret>>

Communicate(c) == CommunicateFrom(c, ReturnCodes, StdoutTexts, StderrTexts)

\* if process.returncode != 0: ... return json.loads(stdout)
ClassifyOutput(c) ==
    /\ pc[c] = "classify"
    /\ result' = [result EXCEPT ![c] = Classify(proc[c].returncode, proc[c].stdout,
                                                 proc[c].stderr, SIRS_EXECUTABLE_PATH)]
    /\ caught' = [caught EXCEPT ![c] = Raised(proc[c].returncode, proc[c].stdout)]
    /\ pc' = [pc EXCEPT ![c] = "execute_return"]
    /\ UNCHANGED <<fs, apiVars, cliVars, entry, queryVars, model_path, input_data, exists_calls, child, spawned,
                   stdin, proc, command, child_in, agentVars, ret>>

\* execute returns to a direct caller
ExecuteReturn(c) ==
    /\ pc[c] = "execute_return"
    /\ entry[c] = "execute"
    /\ ret' = [ret EXCEPT ![c] = result[c]]
    /\ pc' = [pc EXCEPT ![c] = "done"]
    /\ UNCHANGED <<fs, apiVars, cliVars, entry, queryVars, bridgeVars, agentVars>>

(***************************************************************************)
(* AgentCore.process_query                                                 *)
(***************************************************************************)
\* StartQuery keeping the session id in an attribute of the one AgentCore
\* all calls share, where each call reads it from
StartQueryShared(c) ==
    /\ pc[c] = "idle"
    /\ \E sid \in SessionIds, p \in Prompts, ctx \in Contexts :
          /\ session_id' = [d \in Calls |-> sid]
          /\ prompt' = [prompt EXCEPT ![c] = p]
          /\ context' = [context EXCEPT ![c] = ctx]
    /\ entry' = [entry EXCEPT ![c] = "process_query"]
    /\ pc' = [pc EXCEPT ![c] = "run_sirs_inference"]
    /\ UNCHANGED <<fs, apiVars, cliVars, bridgeVars, agentVars, ret>>

\* process_query(session_id, prompt, context) is entered: the arguments are
\* bound in a new frame
StartQuery(c) ==
    /\ pc[c] = "idle"
    /\ \E sid \in SessionIds, p \in Prompts, ctx \in Contexts :
          /\ session_id' = [session_id EXCEPT ![c] = sid]
          /\ prompt' = [prompt EXCEPT ![c] = p]
          /\ context' = [context EXCEPT ![c] = ctx]
    /\ entry' = [entry EXCEPT ![c] = "process_query"]
    /\ pc' = [pc EXCEPT ![c] = "run_sirs_inference"]
    /\ UNCHANGED <<fs, apiVars, cliVars, bridgeVars, agentVars, ret>>

\* a call of process_query from the endpoint
ProcessQuery(c) ==
    /\ NoCallRunning
    /\ StartQuery(c)

\* _run_sirs_inference up to its call of self.sirs_engine.execute
RunSirsInference(c) ==
    /\ pc[c] = "run_sirs_inference"
    /\ input_data' = [input_data EXCEPT ![c] = BuildRequest(context[c])]
    /\ model_path' = [model_path EXCEPT ![c] = AGENT_MODEL_PATH]
    /\ trace' = [trace EXCEPT ![c] = @ \o <<"build", "invoke">>]
    /\ pc' = [pc EXCEPT ![c] = "exists_executable"]
    /\ UNCHANGED <<fs, apiVars, cliVars, entry, queryVars, exists_calls, child, spawned, stdin, proc,
                   command, caught, child_in,
                   result, sirs_output, llm_prompt, llm_response, response, posts, ret>>

\* execute returns into _run_sirs_inference, which looks for "error" in the
\* result and returns it to process_query, unless the look raises
InferenceReturn(c) ==
    /\ pc[c] = "execute_return"
    /\ entry[c] = "process_query"
    /\ LET inspected == InspectResult(result[c]) IN
       IF IsExc(inspected)
       THEN /\ ret' = [ret EXCEPT ![c] = inspected]
            /\ pc' = [pc EXCEPT ![c] = "done"]
            /\ UNCHANGED sirs_output
       ELSE /\ sirs_output' = [sirs_output EXCEPT ![c] = inspected]
            /\ pc' = [pc EXCEPT ![c] = "prepare_llm_prompt"]
            /\ UNCHANGED ret
    /\ UNCHANGED <<fs, apiVars, cliVars, entry, queryVars, bridgeVars, llm_prompt, llm_response, response,
                   posts, trace>>

\* Compose with a prompt that also names the session
ComposeWithSession(c) ==
    /\ pc[c] = "prepare_llm_prompt"
    /\ llm_prompt' = [llm_prompt EXCEPT
                        ![c] = PrepareLlmPrompt(session_id[c] \o prompt[c], sirs_output[c])]
    /\ trace' = [trace EXCEPT ![c] = Append(@, "compose")]
    /\ pc' = [pc EXCEPT ![c] = "query_lm_studio"]
    /\ UNCHANGED <<fs, apiVars, cliVars, entry, queryVars, bridgeVars, sirs_output, llm_response, response,
                   posts, ret>>

\* llm_prompt = self._prepare_llm_prompt(prompt, sirs_output)
Compose(c) ==
    /\ pc[c] = "prepare_llm_prompt"
    /\ llm_prompt' = [llm_prompt EXCEPT ![c] = PrepareLlmPrompt(prompt[c], sirs_output[c])]
    /\ trace' = [trace EXCEPT ![c] = Append(@, "compose")]
    /\ pc' = [pc EXCEPT ![c] = "query_lm_studio"]
    /\ UNCHANGED <<fs, apiVars, cliVars, entry, queryVars, bridgeVars, sirs_output, llm_response, response,
                   posts, ret>>

\* llm_response = self._query_lm_studio(llm_prompt): one POST and its reply
QueryLmFrom(c, replies) ==
    /\ pc[c] = "query_lm_studio"
    /\ \E reply \in replies :
          /\ response' = [response EXCEPT ![c] = reply]
          /\ llm_response' = [llm_response EXCEPT ![c] = QueryLmStudio(reply)]
    /\ posts' = [posts EXCEPT ![c] = @ + 1]
    /\ trace' = [trace EXCEPT ![c] = Append(@, "llm")]
    /\ pc' = [pc EXCEPT ![c] = "final_response"]
    /\ UNCHANGED <<fs, apiVars, cliVars, entry, queryVars, bridgeVars, sirs_output, llm_prompt, ret>>

QueryLm(c) == QueryLmFrom(c, LlmReplies)

\* final_response = {...}; return final_response
Respond(c) ==
    /\ pc[c] = "final_response"
    /\ ret' = [ret EXCEPT ![c] = FinalResponse(session_id[c], llm_response[c])]
    /\ pc' = [pc EXCEPT ![c] = "done"]
    /\ UNCHANGED <<fs, apiVars, cliVars, entry, queryVars, bridgeVars, agentVars>>

(***************************************************************************)
(* AgentCore.get_status                                                    *)
(***************************************************************************)
\* get_status answering from what it finds on disk
get_status_probing ==
    IF SIRS_EXECUTABLE_PATH \in fs THEN JStr(<<"o", "k">>) ELSE JStr(<<"d", "e", "g", "r", "a", "d", "e", "d">>)

\* return "ok"
get_status == JStr(<<"o", "k">>)

\* a call of get_status from the endpoint, between calls of process_query
GetStatus(c) ==
    /\ \A d \in Calls : pc[d] \in {"idle", "done"}
    /\ pc[c] = "idle"
    /\ entry' = [entry EXCEPT ![c] = "get_status"]
    /\ ret' = [ret EXCEPT ![c] = get_status]
    /\ pc' = [pc EXCEPT ![c] = "done"]
    /\ UNCHANGED <<fs, apiVars, cliVars, queryVars, bridgeVars, agentVars>>

\* the caller has the outcome; the frame of the call is gone
Finish(c) ==
    /\ pc[c] = "done"
    /\ request[c] # Unset => http_response[c] # Unset
    /\ pc' = [pc EXCEPT ![c] = "idle"]
    /\ entry' = [entry EXCEPT ![c] = "none"]
    /\ session_id' = [session_id EXCEPT ![c] = <<>>]
    /\ prompt' = [prompt EXCEPT ![c] = <<>>]
    /\ context' = [context EXCEPT ![c] = Unset]
    /\ model_path' = [model_path EXCEPT ![c] = <<>>]
    /\ input_data' = [input_data EXCEPT ![c] = Unset]
    /\ exists_calls' = [exists_calls EXCEPT ![c] = <<>>]
    /\ child' = [child EXCEPT ![c] = "none"]
    /\ spawned' = [spawned EXCEPT ![c] = 0]
    /\ stdin' = [stdin EXCEPT ![c] = Unset]
    /\ proc' = [proc EXCEPT ![c] = Unset]
    /\ result' = [result EXCEPT ![c] = Unset]
    /\ command' = [command EXCEPT ![c] = <<>>]
    /\ caught' = [caught EXCEPT ![c] = Unset]
    /\ child_in' = [child_in EXCEPT ![c] = Unset]
    /\ sirs_output' = [sirs_output EXCEPT ![c] = Unset]
    /\ llm_prompt' = [llm_prompt EXCEPT ![c] = Unset]
    /\ llm_response' = [llm_response EXCEPT ![c] = Unset]
    /\ response' = [response EXCEPT ![c] = Unset]
    /\ posts' = [posts EXCEPT ![c] = 0]
    /\ trace' = [trace EXCEPT ![c] = <<>>]
    /\ ret' = [ret EXCEPT ![c] = Unset]
    /\ request' = [request EXCEPT ![c] = Unset]
    /\ http_response' = [http_response EXCEPT ![c] = Unset]
    /\ UNCHANGED <<fs, cliVars>>

Next ==
    \/ FsChange
    \/ \E c \in Calls :
          \/ Execute(c)
          \/ CheckExecutable(c)
          \/ CheckModel(c)
          \/ Popen(c)
          \/ DumpsInput(c)
          \/ Communicate(c)
          \/ ClassifyOutput(c)
          \/ ExecuteReturn(c)
          \/ ProcessQuery(c)
          \/ RunSirsInference(c)
          \/ InferenceReturn(c)
          \/ Compose(c)
          \/ QueryLm(c)
          \/ Respond(c)
          \/ GetStatus(c)
          \/ Finish(c)

Spec == Init /\ [][Next]_vars


(***************************************************************************)
(* Calls of process_query from several threads at once, on the one         *)
(* AgentCore the service keeps                                             *)
(***************************************************************************)
\* what the children write and what the LLM endpoint replies while calls
\* overlap
ConcurrentStdout == { <<"{", "\"", "x", "\"", ":", "1", "}">>, <<"n", "o", "t", " ", "j", "s", "o", "n">> }

ConcurrentReplies ==
    { Transport,
      HttpResponse(200, <<"{", "\"", "c", "h", "o", "i", "c", "e", "s", "\"", ":", "[", "{", "\"", "m", "e", "s", "s", "a", "g", "e", "\"", ":", "{", "\"", "c", "o", "n", "t", "e", "n", "t", "\"", ":", "\"", "I", "t", " ", "w", "i", "l", "l", " ", "r", "a", "i", "n", ".", "\"", "}", "}", "]", "}">>) }

InitConcurrent ==
    /\ Init
    /\ fs = Paths

CommunicateConcurrent(c) == CommunicateFrom(c, {0}, ConcurrentStdout, {<<>>})

QueryLmConcurrent(c) == QueryLmFrom(c, ConcurrentReplies)

\* the session a thread serves: the first thread one client's, the other
\* threads another's
SessionOf(c) == IF c = 1 THEN <<"s", "1">> ELSE <<"s", "2">>

StartQueryConcurrent(c) ==
    /\ StartQuery(c)
    /\ session_id'[c] = SessionOf(c)
    /\ context'[c] = None

NextConcurrent ==
    \E c \in Calls :
        \/ StartQueryConcurrent(c)
        \/ RunSirsInference(c)
        \/ CheckExecutable(c)
        \/ CheckModel(c)
        \/ Popen(c)
        \/ DumpsInput(c)
        \/ CommunicateConcurrent(c)
        \/ ClassifyOutput(c)
        \/ InferenceReturn(c)
        \/ Compose(c)
        \/ QueryLmConcurrent(c)
        \/ Respond(c)
        \/ Finish(c)

SpecConcurrent == InitConcurrent /\ [][NextConcurrent]_vars

(***************************************************************************)
(* The HTTP API: POST /api/v1/agent/query                                  *)
(***************************************************************************)
\* the JSON bodies a client posts: complete ones, with and without the
\* optional context, and ones that lack or mistype a required field
RequestBodies ==
    { JDict(<< <<<<"s", "e", "s", "s", "i", "o", "n", "_", "i", "d">>, JStr(<<"s", "1">>)>>,
               <<<<"p", "r", "o", "m", "p", "t">>, JStr(<<"W", "h", "a", "t", " ", "i", "s", " ", "t", "h", "e", " ", "w", "e", "a", "t", "h", "e", "r", "?">>)>>,
               <<<<"c", "o", "n", "t", "e", "x", "t">>, JStr(<<"L", "o", "n", "d", "o", "n">>)>> >>),
      JDict(<< <<<<"s", "e", "s", "s", "i", "o", "n", "_", "i", "d">>, JStr(<<"s", "2">>)>>,
               <<<<"p", "r", "o", "m", "p", "t">>, JStr(<<"W", "h", "a", "t", " ", "i", "s", " ", "t", "h", "e", " ", "w", "e", "a", "t", "h", "e", "r", "?">>)>> >>),
      JDict(<< <<<<"s", "e", "s", "s", "i", "o", "n", "_", "i", "d">>, JStr(<<"s", "1">>)>> >>),
      JDict(<< <<<<"p", "r", "o", "m", "p", "t">>, JStr(<<"W", "h", "a", "t", " ", "i", "s", " ", "t", "h", "e", " ", "w", "e", "a", "t", "h", "e", "r", "?">>)>> >>),
      JDict(<<>>),
      JDict(<< <<<<"s", "e", "s", "s", "i", "o", "n", "_", "i", "d">>, JNum(5)>>,
               <<<<"p", "r", "o", "m", "p", "t">>, JStr(<<"W", "h", "a", "t", " ", "i", "s", " ", "t", "h", "e", " ", "w", "e", "a", "t", "h", "e", "r", "?">>)>> >>) }

\* the required fields of AgentQueryRequest, in declaration order
RequiredFields == << <<"s", "e", "s", "s", "i", "o", "n", "_", "i", "d">>, <<"p", "r", "o", "m", "p", "t">> >>

\* one entry of the "detail" list of a 422 response
FieldError(field, msg) ==
    JDict(<< <<<<"l", "o", "c">>, JList(<<JStr(<<"b", "o", "d", "y">>), JStr(field)>>)>>,
             <<<<"m", "s", "g">>, JStr(msg)>> >>)

\* what validating one field of AgentQueryRequest reports: nothing, or one error
FieldErrors(body, field, required) ==
    IF ~HasKey(body, field)
    THEN IF required THEN <<FieldError(field, <<"F", "i", "e", "l", "d", " ", "r", "e", "q", "u", "i", "r", "e", "d">>)>> ELSE <<>>
    ELSE IF Lookup(body, field).t = "str" \/ (~required /\ Lookup(body, field) = None)
         THEN <<>>
         ELSE <<FieldError(field, <<"I", "n", "p", "u", "t", " ", "s", "h", "o", "u", "l", "d", " ", "b", "e", " ", "a", " ", "v", "a", "l", "i", "d", " ", "s", "t", "r", "i", "n", "g">>)>>

\* the errors of a body against AgentQueryRequest, in field order
ValidationErrors(body) ==
    FieldErrors(body, RequiredFields[1], TRUE)
    \o FieldErrors(body, RequiredFields[2], TRUE)
    \o FieldErrors(body, <<"c", "o", "n", "t", "e", "x", "t">>, FALSE)

\* an HTTP response of the API: a status and a JSON content
ApiResponse(status, content) == [status |-> status, content |-> content]

\* generic_exception_handler: the 500 response for an exception e
GenericExceptionHandler(e) ==
    ApiResponse(500, JDict(<< <<<<"m", "e", "s", "s", "a", "g", "e">>,
                               JStr(<<"A", "n", " ", "u", "n", "e", "x", "p", "e", "c", "t", "e", "d", " ", "e", "r", "r", "o", "r", " ", "o", "c", "c", "u", "r", "r", "e", "d", ":", " ">> \o e.text)>> >>))

\* the fields of AgentQueryResponse and the JSON type each one has to have
ResponseFields ==
    << <<<<"s", "e", "s", "s", "i", "o", "n", "_", "i", "d">>, {"str"}>>,
       <<<<"r", "e", "s", "p", "o", "n", "s", "e", "_", "t", "e", "x", "t">>, {"str"}>>,
       <<<<"c", "o", "n", "f", "i", "d", "e", "n", "c", "e", "_", "s", "c", "o", "r", "e">>, {"float", "num"}>> >>

\* AgentQueryResponse(**response_data): the model, or the ValidationError
AgentQueryResponse(response_data) ==
    IF \A i \in 1..Len(ResponseFields) :
           /\ HasKey(response_data, ResponseFields[i][1])
           /\ Lookup(response_data, ResponseFields[i][1]).t \in ResponseFields[i][2]
    THEN JDict([i \in 1..Len(ResponseFields) |->
                  <<ResponseFields[i][1], Lookup(response_data, ResponseFields[i][1])>>])
    ELSE Exc("ValidationError", <<"v", "a", "l", "i", "d", "a", "t", "i", "o", "n", " ", "e", "r", "r", "o", "r", " ", "f", "o", "r", " ", "A", "g", "e", "n", "t", "Q", "u", "e", "r", "y", "R", "e", "s", "p", "o", "n", "s", "e">>)

\* what the endpoint answers once process_query has returned or raised r
EndpointResponse(r) ==
    IF IsExc(r) THEN GenericExceptionHandler(r)
    ELSE LET model == AgentQueryResponse(r) IN
         IF IsExc(model) THEN GenericExceptionHandler(model)
         ELSE ApiResponse(200, model)

\* the endpoint without the validation of the body
QueryAgentUnvalidated(c) ==
    /\ NoCallRunning
    /\ pc[c] = "idle"
    /\ \E body \in RequestBodies :
         LET text(k) == IF HasKey(body, k) /\ Lookup(body, k).t = "str"
                        THEN Lookup(body, k).s ELSE <<>> IN
         /\ request' = [request EXCEPT ![c] = body]
         /\ session_id' = [session_id EXCEPT ![c] = text(RequiredFields[1])]
         /\ prompt' = [prompt EXCEPT ![c] = text(RequiredFields[2])]
         /\ context' = [context EXCEPT ![c] = PyGet(body, <<"c", "o", "n", "t", "e", "x", "t">>, None)]
         /\ entry' = [entry EXCEPT ![c] = "process_query"]
         /\ pc' = [pc EXCEPT ![c] = "run_sirs_inference"]
    /\ UNCHANGED <<fs, http_response, cliVars, bridgeVars, agentVars, ret>>

\* a POST arrives: the body is validated against AgentQueryRequest before
\* query_agent runs; a valid one is handed to process_query field by field
QueryAgent(c) ==
    /\ NoCallRunning
    /\ pc[c] = "idle"
    /\ \E body \in RequestBodies :
         /\ request' = [request EXCEPT ![c] = body]
         /\ IF ValidationErrors(body) # <<>>
            THEN /\ http_response' = [http_response EXCEPT ![c] =
                        ApiResponse(422, JDict(<< <<<<"d", "e", "t", "a", "i", "l">>,
                                                    JList(ValidationErrors(body))>> >>))]
                 /\ pc' = [pc EXCEPT ![c] = "done"]
                 /\ UNCHANGED <<entry, queryVars>>
            ELSE /\ session_id' = [session_id EXCEPT ![c] = Lookup(body, RequiredFields[1]).s]
                 /\ prompt' = [prompt EXCEPT ![c] = Lookup(body, RequiredFields[2]).s]
                 /\ context' = [context EXCEPT ![c] = PyGet(body, <<"c", "o", "n", "t", "e", "x", "t">>, None)]
                 /\ entry' = [entry EXCEPT ![c] = "process_query"]
                 /\ pc' = [pc EXCEPT ![c] = "run_sirs_inference"]
                 /\ UNCHANGED http_response
    /\ UNCHANGED <<fs, cliVars, bridgeVars, agentVars, ret>>

\* return AgentQueryResponse(**response_data), or the exception handler's answer
QueryAgentReturn(c) ==
    /\ pc[c] = "done"
    /\ request[c] # Unset
    /\ http_response[c] = Unset
    /\ http_response' = [http_response EXCEPT ![c] = EndpointResponse(ret[c])]
    /\ UNCHANGED <<fs, pc, entry, queryVars, bridgeVars, agentVars, ret, request, cliVars>>

\* what the engine and the language model answer in the runs of the API
ApiStdout == { <<"{", "\"", "x", "\"", ":", "1", "}">>, <<"3">> }

ApiReplies ==
    { Transport,
      HttpResponse(200, <<"{", "\"", "c", "h", "o", "i", "c", "e", "s", "\"", ":", "[", "{", "\"", "m", "e", "s", "s", "a", "g", "e", "\"", ":", "{", "\"", "c", "o", "n", "t", "e", "n", "t", "\"", ":", "\"", "I", "t", " ", "w", "i", "l", "l", " ", "r", "a", "i", "n", ".", "\"", "}", "}", "]", "}">>),
      HttpResponse(200, <<"{", "\"", "c", "h", "o", "i", "c", "e", "s", "\"", ":", "[", "{", "\"", "m", "e", "s", "s", "a", "g", "e", "\"", ":", "{", "\"", "c", "o", "n", "t", "e", "n", "t", "\"", ":", "n", "u", "l", "l", "}", "}", "]", "}">>) }

NextApi ==
    \E c \in Calls :
        \/ QueryAgent(c)
        \/ RunSirsInference(c)
        \/ CheckExecutable(c)
        \/ CheckModel(c)
        \/ Popen(c)
        \/ DumpsInput(c)
        \/ CommunicateFrom(c, {0}, ApiStdout, {<<>>})
        \/ ClassifyOutput(c)
        \/ InferenceReturn(c)
        \/ Compose(c)
        \/ QueryLmFrom(c, ApiReplies)
        \/ Respond(c)
        \/ QueryAgentReturn(c)
        \/ Finish(c)

SpecApi == Init /\ [][NextApi]_vars

(***************************************************************************)
(* The command line client: chat                                           *)
(***************************************************************************)
\* the most prompts one chat session reads
MaxPrompts == 3

\* --session-id: the default and the one given on the command line
CliSessionIds == { <<"c", "l", "i", "-", "s", "e", "s", "s", "i", "o", "n", "-", "0", "0", "1">>, <<"t", "e", "s", "t", "-", "c", "h", "a", "t", "-", "s", "e", "s", "s", "i", "o", "n">> }

\* the lines the user enters at the "You" prompt (an empty line is asked again)
PromptLines == { <<"h", "e", "l", "l", "o">>, <<"q", "u", "i", "t", "t", "e", "r">>, <<"q", "u", "i", "t">>, <<"E", "X", "I", "T">>, <<"Q", "u", "i", "t">> }

\* str.lower, for the letters of the alphabet
Lower(s) ==
    LET LowerChar(ch) ==
            CASE ch = "A" -> "a" [] ch = "B" -> "b" [] ch = "C" -> "c" [] ch = "D" -> "d"
              [] ch = "E" -> "e" [] ch = "F" -> "f" [] ch = "G" -> "g" [] ch = "H" -> "h"
              [] ch = "I" -> "i" [] ch = "J" -> "j" [] ch = "K" -> "k" [] ch = "L" -> "l"
              [] ch = "M" -> "m" [] ch = "N" -> "n" [] ch = "O" -> "o" [] ch = "P" -> "p"
              [] ch = "Q" -> "q" [] ch = "R" -> "r" [] ch = "S" -> "s" [] ch = "T" -> "t"
              [] ch = "U" -> "u" [] ch = "V" -> "v" [] ch = "W" -> "w" [] ch = "X" -> "x"
              [] ch = "Y" -> "y" [] ch = "Z" -> "z" [] OTHER -> ch
    IN  [i \in 1..Len(s) |-> LowerChar(s[i])]

\* an HTTP response as the client sees it: the status and what .json() gives
CliHttp(status, json) == [kind |-> "http", status |-> status, json |-> json]

\* str(e) of the RequestException a failed exchange raises
RequestExceptionText(reply) ==
    IF reply.kind = "transport" THEN <<"C", "o", "n", "n", "e", "c", "t", "i", "o", "n", " ", "r", "e", "f", "u", "s", "e", "d">>
    ELSE IF HttpError(reply.status)
         THEN IntChars(reply.status)
              \o (IF reply.status < 500 THEN <<" ", "C", "l", "i", "e", "n", "t", " ", "E", "r", "r", "o", "r">> ELSE <<" ", "S", "e", "r", "v", "e", "r", " ", "E", "r", "r", "o", "r">>)
         ELSE reply.json.text

\* the exchange raised a RequestException: no connection, an error status
\* at raise_for_status, or a body .json() cannot decode
RequestFailed(reply) ==
    \/ reply.kind = "transport"
    \/ HttpError(reply.status)
    \/ IsExc(reply.json)

\* get_agent_status: the "status" of the answer, or the error string
get_agent_status(reply) ==
    IF RequestFailed(reply)
    THEN JStr(<<"E", "r", "r", "o", "r", " ", "c", "o", "n", "n", "e", "c", "t", "i", "n", "g", " ", "t", "o", " ", "a", "g", "e", "n", "t", " ", "A", "P", "I", ":", " ">> \o RequestExceptionText(reply))
    ELSE PyGet(reply.json, <<"s", "t", "a", "t", "u", "s">>, None)

\* payload = {"session_id": session_id, "prompt": prompt, "context": context}
Payload(sid, p) ==
    JDict(<< <<<<"s", "e", "s", "s", "i", "o", "n", "_", "i", "d">>, JStr(sid)>>,
             <<<<"p", "r", "o", "m", "p", "t">>, JStr(p)>>,
             <<<<"c", "o", "n", "t", "e", "x", "t">>, None>> >>)

\* query_agent: the decoded answer, or the error dict
query_agent(reply) ==
    IF RequestFailed(reply)
    THEN ErrorDict(<<"A", "P", "I", " ", "r", "e", "q", "u", "e", "s", "t", " ", "f", "a", "i", "l", "e", "d", ":", " ">> \o RequestExceptionText(reply))
    ELSE reply.json

\* the answers the status endpoint and the stand-ins of the tests give
StatusReplies ==
    { Transport,
      CliHttp(200, JDict(<< <<<<"s", "t", "a", "t", "u", "s">>, JStr(<<"o", "k">>)>> >>)),
      CliHttp(200, JDict(<< <<<<"s", "t", "a", "t", "u", "s">>, JStr(<<"e", "r", "r", "o", "r">>)>> >>)),
      CliHttp(200, JDict(<<>>)),
      CliHttp(200, JSONDecodeError),
      CliHttp(500, JDict(<< <<<<"m", "e", "s", "s", "a", "g", "e">>, JStr(<<"A", "n", " ", "u", "n", "e", "x", "p", "e", "c", "t", "e", "d", " ", "e", "r", "r", "o", "r", " ", "o", "c", "c", "u", "r", "r", "e", "d", ":", " ">>)>> >>)) }

\* the answers the query endpoint gives: an agent answer, an answer without
\* fields, a validation error, the exception handler's answer, no connection
QueryReplies ==
    { Transport,
      CliHttp(200, JDict(<< <<<<"r", "e", "s", "p", "o", "n", "s", "e", "_", "t", "e", "x", "t">>, JStr(<<"T", "h", "e", " ", "a", "g", "e", "n", "t", "'", "s", " ", "a", "n", "s", "w", "e", "r", ".">>)>>,
                            <<<<"c", "o", "n", "f", "i", "d", "e", "n", "c", "e", "_", "s", "c", "o", "r", "e">>, PyFloat(95, -2)>> >>)),
      CliHttp(200, JDict(<<>>)),
      CliHttp(422, JDict(<< <<<<"d", "e", "t", "a", "i", "l">>, JList(<<>>)>> >>)),
      CliHttp(500, JDict(<< <<<<"m", "e", "s", "s", "a", "g", "e">>, JStr(<<"A", "n", " ", "u", "n", "e", "x", "p", "e", "c", "t", "e", "d", " ", "e", "r", "r", "o", "r", " ", "o", "c", "c", "u", "r", "r", "e", "d", ":", " ">>)>> >>)) }

\* str(v) inside an f-string, for the values the answers hold
PyStr(v) ==
    CASE v.t = "str" -> v.s
      [] v.t = "null" -> <<"N", "o", "n", "e">>
      [] v.t = "num" -> IntChars(v.n)

\* f"{v:.2f}" for a float with at most two decimals; other values raise
Format2f(v) ==
    IF IsExc(v) THEN v
    ELSE IF v.t = "float" /\ v.exp \in {-2, -1, 0} /\ v.mant >= 0
    THEN LET hundredths == IF v.exp = -2 THEN v.mant
                           ELSE IF v.exp = -1 THEN v.mant * 10 ELSE v.mant * 100
         IN  JStr(NatChars(hundredths \div 100) \o <<".">>
                  \o <<DigitChar((hundredths \div 10) % 10), DigitChar(hundredths % 10)>>)
    ELSE IF v.t = "num" /\ v.n >= 0 THEN JStr(NatChars(v.n) \o <<".", "0", "0">>)
    ELSE Exc("TypeError", <<"u", "n", "s", "u", "p", "p", "o", "r", "t", "e", "d", " ", "f", "o", "r", "m", "a", "t", " ", "s", "t", "r", "i", "n", "g">>)

\* the line chat prints for the response of a query, or the exception that
\* leaves the loop
ResponseLine(resp) ==
    IF ~IsContainer(resp) THEN NotIterable
    ELSE IF PyIn(<<"e", "r", "r", "o", "r">>, resp)
    THEN LET e == PySubscript(resp, <<"e", "r", "r", "o", "r">>) IN
         IF IsExc(e) THEN e ELSE JStr(<<"A", "g", "e", "n", "t", " ", "E", "r", "r", "o", "r", ":", " ">> \o PyStr(e))
    ELSE LET response_text == PyGet(resp, <<"r", "e", "s", "p", "o", "n", "s", "e", "_", "t", "e", "x", "t">>, JStr(<<"N", "o", " ", "r", "e", "s", "p", "o", "n", "s", "e", " ", "t", "e", "x", "t", ".">>))
             confidence == Format2f(PyGet(resp, <<"c", "o", "n", "f", "i", "d", "e", "n", "c", "e", "_", "s", "c", "o", "r", "e">>, PyFloat(0, 0)))
         IN  IF IsExc(response_text) THEN response_text
             ELSE IF IsExc(confidence) THEN confidence
             ELSE JStr(<<"A", "g", "e", "n", "t", ":", " ">> \o PyStr(response_text)
                       \o <<" ", "(", "C", "o", "n", "f", "i", "d", "e", "n", "c", "e", ":", " ">> \o confidence.s \o <<")">>)

\* the chat command starts: the two opening lines
Chat ==
    /\ cli_pc = "idle"
    /\ \E sid \in CliSessionIds : session' = sid
    /\ echoed' = << <<"S", "t", "a", "r", "t", "i", "n", "g", " ", "i", "n", "t", "e", "r", "a", "c", "t", "i", "v", "e", " ", "c", "h", "a", "t", " ", "s", "e", "s", "s", "i", "o", "n", ".", ".", ".">>,
                    <<"T", "y", "p", "e", " ", "'", "q", "u", "i", "t", "'", " ", "o", "r", " ", "'", "e", "x", "i", "t", "'", " ", "t", "o", " ", "e", "n", "d", " ", "t", "h", "e", " ", "s", "e", "s", "s", "i", "o", "n", ".">> >>
    /\ cli_pc' = "status"
    /\ UNCHANGED <<status_calls, status_result, entered, queries, cli_response>>
    /\ UNCHANGED <<fs, pc, entry, queryVars, bridgeVars, agentVars, ret, apiVars>>

\* the status check that lets the loop start whatever the status is
CheckAgentStatusNoReturn ==
    /\ cli_pc = "status"
    /\ \E reply \in StatusReplies :
         /\ status_result' = get_agent_status(reply)
         /\ ~IsExc(get_agent_status(reply))
    /\ status_calls' = status_calls + 1
    /\ cli_pc' = "prompt"
    /\ UNCHANGED <<session, entered, queries, cli_response, echoed>>
    /\ UNCHANGED <<fs, pc, entry, queryVars, bridgeVars, agentVars, ret, apiVars>>

\* if get_agent_status() != "ok": echo that the service is not available, return
CheckAgentStatus ==
    /\ cli_pc = "status"
    /\ \E reply \in StatusReplies :
         LET status == get_agent_status(reply) IN
         /\ status_result' = status
         /\ IF IsExc(status)
            THEN cli_pc' = "raised" /\ UNCHANGED echoed
            ELSE IF status # JStr(<<"o", "k">>)
            THEN /\ echoed' = Append(echoed,
                       <<"A", "g", "e", "n", "t", " ", "s", "e", "r", "v", "i", "c", "e", " ", "i", "s", " ", "n", "o", "t", " ", "a", "v", "a", "i", "l", "a", "b", "l", "e", ".", " ", "P", "l", "e", "a", "s", "e", " ", "s", "t", "a", "r", "t", " ", "t", "h", "e", " ", "s", "e", "r", "v", "i", "c", "e", " ", "f", "i", "r", "s", "t", ".">>)
                 /\ cli_pc' = "returned"
            ELSE cli_pc' = "prompt" /\ UNCHANGED echoed
    /\ status_calls' = status_calls + 1
    /\ UNCHANGED <<session, entered, queries, cli_response>>
    /\ UNCHANGED <<fs, pc, entry, queryVars, bridgeVars, agentVars, ret, apiVars>>

\* the loop head comparing the prompt as it was typed
ReadPromptCaseSensitive ==
    /\ cli_pc = "prompt"
    /\ Len(entered) < MaxPrompts
    /\ \E p \in PromptLines :
         /\ entered' = Append(entered, p)
         /\ IF p \in { <<"q", "u", "i", "t">>, <<"e", "x", "i", "t">> }
            THEN /\ echoed' = Append(echoed, <<"E", "n", "d", "i", "n", "g", " ", "c", "h", "a", "t", " ", "s", "e", "s", "s", "i", "o", "n", ".">>)
                 /\ cli_pc' = "ended"
            ELSE cli_pc' = "query" /\ UNCHANGED echoed
    /\ UNCHANGED <<session, status_calls, status_result, queries, cli_response>>
    /\ UNCHANGED <<fs, pc, entry, queryVars, bridgeVars, agentVars, ret, apiVars>>

\* prompt = click.prompt("You"); quit and exit break the loop
ReadPrompt ==
    /\ cli_pc = "prompt"
    /\ Len(entered) < MaxPrompts
    /\ \E p \in PromptLines :
         /\ entered' = Append(entered, p)
         /\ IF Lower(p) \in { <<"q", "u", "i", "t">>, <<"e", "x", "i", "t">> }
            THEN /\ echoed' = Append(echoed, <<"E", "n", "d", "i", "n", "g", " ", "c", "h", "a", "t", " ", "s", "e", "s", "s", "i", "o", "n", ".">>)
                 /\ cli_pc' = "ended"
            ELSE cli_pc' = "query" /\ UNCHANGED echoed
    /\ UNCHANGED <<session, status_calls, status_result, queries, cli_response>>
    /\ UNCHANGED <<fs, pc, entry, queryVars, bridgeVars, agentVars, ret, apiVars>>

\* the input ends at the prompt: click.prompt raises Abort
ReadAbort ==
    /\ cli_pc = "prompt"
    /\ cli_pc' = "aborted"
    /\ UNCHANGED <<session, status_calls, status_result, entered, queries, cli_response, echoed>>
    /\ UNCHANGED <<fs, pc, entry, queryVars, bridgeVars, agentVars, ret, apiVars>>

\* the loop body leaving the loop after it reported an error
SendQueryBreakOnError ==
    /\ cli_pc = "query"
    /\ queries' = Append(queries, Payload(session, entered[Len(entered)]))
    /\ \E reply \in QueryReplies :
         LET resp == query_agent(reply)
             line == ResponseLine(resp) IN
         /\ cli_response' = resp
         /\ ~IsExc(line)
         /\ echoed' = Append(echoed, line.s)
         /\ cli_pc' = IF PyIn(<<"e", "r", "r", "o", "r">>, resp) THEN "ended" ELSE "prompt"
    /\ UNCHANGED <<session, status_calls, status_result, entered>>
    /\ UNCHANGED <<fs, pc, entry, queryVars, bridgeVars, agentVars, ret, apiVars>>

\* response = query_agent(session_id, prompt): one POST of the payload, then
\* the line for its response, and back to the head of the loop
SendQuery ==
    /\ cli_pc = "query"
    /\ queries' = Append(queries, Payload(session, entered[Len(entered)]))
    /\ \E reply \in QueryReplies :
         LET resp == query_agent(reply)
             line == ResponseLine(resp) IN
         /\ cli_response' = resp
         /\ IF IsExc(line)
            THEN cli_pc' = "raised" /\ UNCHANGED echoed
            ELSE echoed' = Append(echoed, line.s) /\ cli_pc' = "prompt"
    /\ UNCHANGED <<session, status_calls, status_result, entered>>
    /\ UNCHANGED <<fs, pc, entry, queryVars, bridgeVars, agentVars, ret, apiVars>>

NextCli ==
    \/ Chat
    \/ CheckAgentStatus
    \/ ReadPrompt
    \/ ReadAbort
    \/ SendQuery

\* the client runs against a service whose files are in place
SpecCli == InitConcurrent /\ [][NextCli]_vars
(***************************************************************************)
(* Properties                                                              *)
(***************************************************************************)
\* execute has produced the value it returns
ExecuteReturned(c) == result[c] # Unset

\* communicate returned: the child has exited and its output is buffered
ExchangeDone(c) == proc[c] # Unset

StartedStages == {"exists_model", "popen", "dumps", "communicate", "classify"}

\* C1: a call of execute that finds the executable path missing returns the
\* executable-missing error and starts no child process, whatever model path
\* and input it was given.
C1_ExecutableMissingNoSpawn ==
    \A c \in Calls :
        (exists_calls[c] # <<>> /\ ~exists_calls[c][1][2])
        => /\ result[c] = ExecutableMissing(SIRS_EXECUTABLE_PATH)
           /\ spawned[c] = 0
           /\ child[c] = "none"
           /\ pc[c] \notin StartedStages

C1_Witness ==
    \E c \in Calls :
        /\ pc[c] = "done"
        /\ entry[c] = "execute"
        /\ exists_calls[c] = << <<SIRS_EXECUTABLE_PATH, FALSE>> >>
        /\ model_path[c] # AGENT_MODEL_PATH
        /\ ~Serializable(input_data[c])
        /\ ret[c] = ExecutableMissing(SIRS_EXECUTABLE_PATH)

\* C2: a call of execute that finds the executable present and the model
\* path missing returns the model-missing error and starts no child process.
C2_ModelMissingNoSpawn ==
    \A c \in Calls :
        (Len(exists_calls[c]) = 2 /\ ~exists_calls[c][2][2])
        => /\ exists_calls[c][1] = <<SIRS_EXECUTABLE_PATH, TRUE>>
           /\ exists_calls[c][2][1] = model_path[c]
           /\ result[c] = ModelMissing(model_path[c])
           /\ spawned[c] = 0
           /\ child[c] = "none"
           /\ pc[c] \notin StartedStages

C2_Witness ==
    \E c \in Calls :
        /\ pc[c] = "done"
        /\ entry[c] = "execute"
        /\ exists_calls[c] = << <<SIRS_EXECUTABLE_PATH, TRUE>>, <<model_path[c], FALSE>> >>
        /\ ret[c] = ModelMissing(model_path[c])

\* C3: execute looks at the executable path first: the first existence check
\* of a call is of the executable, the model path is looked at only after
\* the executable was found, and a call that finds the executable missing
\* returns the executable-missing error, never the model-missing one, also
\* when the model file is missing too.
C3_ExecutableCheckedFirst ==
    \A c \in Calls :
        /\ exists_calls[c] # <<>> => exists_calls[c][1][1] = SIRS_EXECUTABLE_PATH
        /\ Len(exists_calls[c]) > 1 => exists_calls[c][1][2]
        /\ (ExecuteReturned(c) /\ ~exists_calls[c][1][2])
           => /\ result[c] = ExecutableMissing(SIRS_EXECUTABLE_PATH)
              /\ result[c] # ModelMissing(model_path[c])

C3_Witness ==
    \E c \in Calls :
        /\ pc[c] = "execute_return"
        /\ exists_calls[c] = << <<SIRS_EXECUTABLE_PATH, FALSE>> >>
        /\ model_path[c] \notin fs
        /\ SIRS_EXECUTABLE_PATH \notin fs
        /\ result[c] = ExecutableMissing(SIRS_EXECUTABLE_PATH)

\* C4: when the child exited with a non-zero code, execute returns the
\* process-failure error with the child's standard error, whatever standard
\* output holds: JSON on standard output is not returned.
C4_NonZeroExitIsProcessError ==
    \A c \in Calls :
        (ExchangeDone(c) /\ ExecuteReturned(c) /\ proc[c].returncode # 0)
        => /\ result[c] = ProcessError(proc[c].stderr)
           /\ result[c] # JsonLoads(proc[c].stdout)

C4_Witness ==
    \E c \in Calls :
        /\ ExchangeDone(c) /\ ExecuteReturned(c)
        /\ proc[c].returncode = 1
        /\ proc[c].stdout = <<"{", "\"", "x", "\"", ":", "1", "}">>
        /\ proc[c].stderr = <<"E", "r", "r", "o", "r", ":", " ", "S", "o", "m", "e", "t", "h", "i", "n", "g", " ", "w", "e", "n", "t", " ", "w", "r", "o", "n", "g", ".">>
        /\ result[c] = ProcessError(<<"E", "r", "r", "o", "r", ":", " ", "S", "o", "m", "e", "t", "h", "i", "n", "g", " ", "w", "e", "n", "t", " ", "w", "r", "o", "n", "g", ".">>)

\* C5: when the child exited with code 0 and standard output is a valid JSON
\* text, execute returns the value the text parses to: {"x":1} gives the
\* dict with the one key x and the value 1.
C5_ZeroExitReturnsParsedValue ==
    \A c \in Calls :
        (ExchangeDone(c) /\ ExecuteReturned(c) /\ proc[c].returncode = 0)
        => /\ ~IsExc(JsonLoads(proc[c].stdout)) => result[c] = JsonLoads(proc[c].stdout)
           /\ proc[c].stdout = <<"{", "\"", "x", "\"", ":", "1", "}">>
              => result[c] = JDict(<< <<<<"x">>, JNum(1)>> >>)
           /\ proc[c].stdout = <<"3">> => result[c] = JNum(3)

C5_Witness ==
    \E c \in Calls :
        /\ ExchangeDone(c) /\ ExecuteReturned(c)
        /\ proc[c].returncode = 0
        /\ proc[c].stdout = <<"{", "\"", "x", "\"", ":", "1", "}">>
        /\ result[c] = JDict(<< <<<<"x">>, JNum(1)>> >>)

\* the texts of StdoutTexts that are no JSON text: empty, truncated, prose
NotJson == {<<>>, <<"{", "\"", "x", "\"", ":">>, <<"n", "o", "t", " ", "j", "s", "o", "n">>}

\* C6: when the child exited with code 0 and standard output is not a valid
\* JSON text (empty and truncated texts included), execute returns the
\* decode-failure error as a value: no exception leaves execute.
C6_BadJsonIsMalformedOutput ==
    \A c \in Calls :
        (ExchangeDone(c) /\ ExecuteReturned(c) /\ proc[c].returncode = 0)
        => /\ IsExc(JsonLoads(proc[c].stdout)) => result[c] = MalformedOutput
           /\ proc[c].stdout \in NotJson => result[c] = MalformedOutput
           /\ ~IsExc(result[c])

C6_Witness ==
    \E c \in Calls :
        /\ ExchangeDone(c) /\ ExecuteReturned(c)
        /\ proc[c].returncode = 0
        /\ proc[c].stdout = <<"{", "\"", "x", "\"", ":">>
        /\ result[c] = MalformedOutput

\* the values execute returns on its failure paths
FailureResults ==
    {ExecutableMissing(SIRS_EXECUTABLE_PATH), SpawnError(SIRS_EXECUTABLE_PATH), MalformedOutput}
    \cup {ModelMissing(mp) : mp \in ModelPaths}
    \cup {ProcessError(err) : err \in StderrTexts}
    \cup {InternalError(e) : e \in {PermissionError, UnicodeDecodeError, JsonDumps(PyObject)}}

\* C7: what execute returns for a successful exchange (exit code 0, valid
\* JSON on standard output) is never a value it returns for a failure.
C7_SuccessNeverLooksLikeFailure ==
    \A c \in Calls :
        (/\ ExchangeDone(c) /\ ExecuteReturned(c)
         /\ proc[c].returncode = 0
         /\ ~IsExc(JsonLoads(proc[c].stdout)))
        => result[c] \notin FailureResults

\* the dict process_query returns: session_id, response_text (a str) and
\* confidence_score
IsAgentAnswer(v) ==
    /\ v.t = "dict"
    /\ HasKey(v, <<"s", "e", "s", "s", "i", "o", "n", "_", "i", "d">>)
    /\ HasKey(v, <<"r", "e", "s", "p", "o", "n", "s", "e", "_", "t", "e", "x", "t">>)
    /\ HasKey(v, <<"c", "o", "n", "f", "i", "d", "e", "n", "c", "e", "_", "s", "c", "o", "r", "e">>)
    /\ Lookup(v, <<"r", "e", "s", "p", "o", "n", "s", "e", "_", "t", "e", "x", "t">>).t = "str"

\* C8: process_query never raises: whatever the bridge and the LLM call
\* gave, a finished call has returned an answer with the three fields.
C8_ProcessQueryNeverRaises ==
    \A c \in Calls :
        (entry[c] = "process_query" /\ pc[c] = "done") => IsAgentAnswer(ret[c])

\* C9: a finished call of process_query has run its four stages, each once
\* and in the order build request, bridge, compose, LLM call.
C9_FourStagesInOrder ==
    \A c \in Calls :
        (entry[c] = "process_query" /\ pc[c] = "done")
        => trace[c] = <<"build", "invoke", "compose", "llm">>

\* C10: when execute returns, the child it started is not running any more:
\* it has exited and has been waited for.
C10_ChildReapedAtReturn ==
    \A c \in Calls : ExecuteReturned(c) => child[c] # "running"


\* the call's Popen raised: no child was started and an except clause of
\* execute caught an exception
SpawnFailed(c) == caught[c] # Unset /\ spawned[c] = 0

\* v is the dict the except Exception clause returns
IsInternalError(v) ==
    /\ v.t = "dict"
    /\ Len(v.members) = 1
    /\ v.members[1][1] = <<"e", "r", "r", "o", "r">>
    /\ v.members[1][2].t = "str"
    /\ StartsWith(v.members[1][2].s, 1,
                  <<"A", "n", " ", "u", "n", "e", "x", "p", "e", "c", "t", "e", "d", " ", "e", "r", "r", "o", "r", " ", "o", "c", "c", "u", "r", "r", "e", "d", " ", "w", "h", "i", "l", "e", " ", "r", "u", "n", "n", "i", "n", "g", " ", "t", "h", "e", " ", "S", "I", "R", "S", " ", "e", "n", "g", "i", "n", "e", ":", " ">>)

(***************************************************************************)
(* C11, as stated: every failure to start the child process after both     *)
(* checks passed, the executable gone or permission denied, makes execute  *)
(* return the dict of the missing executable at spawn ("Could not find the *)
(* SIRS executable at ..."), never the dict of an unexpected error.        *)
(***************************************************************************)
C11_EverySpawnFailureIsSpawnError ==
    \A c \in Calls :
        SpawnFailed(c) =>
            /\ result[c] = SpawnError(SIRS_EXECUTABLE_PATH)
            /\ ~IsInternalError(result[c])

(***************************************************************************)
(* C11, amended: when Popen raises FileNotFoundError after both checks     *)
(* passed, execute returns the dict of the missing executable at spawn,    *)
(* which is not the dict of an unexpected error; when Popen raises another *)
(* exception (permission denied), execute returns the dict of an           *)
(* unexpected error; in both cases execute returns a dict and raises       *)
(* nothing.                                                                *)
(***************************************************************************)
C11_MissingAtSpawnIsSpawnError ==
    \A c \in Calls :
        SpawnFailed(c) =>
            /\ Len(exists_calls[c]) = 2
            /\ \A i \in 1..2 : exists_calls[c][i][2]
            /\ ~IsExc(result[c])
            /\ caught[c].name = "FileNotFoundError" =>
                  /\ result[c] = SpawnError(SIRS_EXECUTABLE_PATH)
                  /\ ~IsInternalError(result[c])
            /\ caught[c].name # "FileNotFoundError" => IsInternalError(result[c])

\* the executable was there at the check and gone at the spawn
C11_Witness ==
    \E c \in Calls :
        /\ SpawnFailed(c)
        /\ caught[c] = FileNotFoundError
        /\ exists_calls[c][1] = <<SIRS_EXECUTABLE_PATH, TRUE>>
        /\ result[c] = SpawnError(SIRS_EXECUTABLE_PATH)
        /\ ret[c] = result[c]

\* the exceptions execute has a clause of their own for
NamedExceptions == {"FileNotFoundError", "JSONDecodeError"}

(***************************************************************************)
(* C12: execute never raises; an exception inside its try block that is    *)
(* neither FileNotFoundError nor JSONDecodeError, whether from starting    *)
(* the child, from json.dumps of the input or from communicate, comes back *)
(* as the dict of an unexpected error, whose message ends with the text of *)
(* the exception.                                                          *)
(***************************************************************************)
C12_UnexpectedIsInternalError ==
    \A c \in Calls :
        /\ ExecuteReturned(c) => ~IsExc(result[c])
        /\ (caught[c] # Unset /\ caught[c].name \notin NamedExceptions) =>
              /\ IsInternalError(result[c])
              /\ LET message == Lookup(result[c], <<"e", "r", "r", "o", "r">>).s
                     text == caught[c].text
                 IN  /\ text # <<>>
                     /\ Len(message) >= Len(text)
                     /\ StartsWith(message, Len(message) - Len(text) + 1, text)

\* json.dumps could not encode the input of a direct caller of execute, and
\* the caller has the dict
C12_Witness ==
    \E c \in Calls :
        /\ entry[c] = "execute"
        /\ pc[c] = "done"
        /\ caught[c] # Unset
        /\ caught[c].name = "TypeError"
        /\ spawned[c] = 1
        /\ IsInternalError(ret[c])

\* {"session_id": ..., "response_text": ..., "confidence_score": 0.85}
AgentAnswer(sid, text) ==
    JDict(<< <<<<"s", "e", "s", "s", "i", "o", "n", "_", "i", "d">>, JStr(sid)>>,
             <<<<"r", "e", "s", "p", "o", "n", "s", "e", "_", "t", "e", "x", "t">>, text>>,
             <<<<"c", "o", "n", "f", "i", "d", "e", "n", "c", "e", "_", "s", "c", "o", "r", "e">>, PyFloat(85, -2)>> >>)

\* the call of process_query has returned or raised
Returned(c) == entry[c] = "process_query" /\ pc[c] = "done"

\* the POST of the call raised, or its response has a status that
\* raise_for_status raises for
LlmFailed(c) ==
    /\ response[c] # Unset
    /\ \/ response[c].kind = "transport"
       \/ HttpError(response[c].status)

(***************************************************************************)
(* C13: when the POST to the LLM fails, by a transport failure or an error *)
(* status, _query_lm_studio gives the dict of the failed connection and    *)
(* process_query still returns an answer that carries the caller's session *)
(* id and the text "No response from LLM."; it raises nothing.             *)
(***************************************************************************)
C13_LlmFailureGivesPlaceholder ==
    \A c \in Calls :
        LlmFailed(c) =>
            /\ llm_response[c] = ErrorDict(<<"F", "a", "i", "l", "e", "d", " ", "t", "o", " ", "c", "o", "n", "n", "e", "c", "t", " ", "t", "o", " ", "L", "M", " ", "S", "t", "u", "d", "i", "o", ".">>)
            /\ Returned(c) =>
                  ret[c] = AgentAnswer(session_id[c], JStr(<<"N", "o", " ", "r", "e", "s", "p", "o", "n", "s", "e", " ", "f", "r", "o", "m", " ", "L", "L", "M", ".">>))

\* a call whose POST raised has returned its answer
C13_Witness ==
    \E c \in Calls :
        /\ Returned(c)
        /\ response[c] = Transport
        /\ session_id[c] = <<"s", "2">>
        /\ ret[c] = AgentAnswer(<<"s", "2">>, JStr(NO_RESPONSE))

\* 200 <= status < 300
IsSuccessStatus(status) == status >= 200 /\ status < 300

\* the POST of the call got a 2xx response whose body is JSON
LlmSucceeded(c) ==
    /\ response[c] # Unset
    /\ response[c].kind = "http"
    /\ IsSuccessStatus(response[c].status)
    /\ ~IsExc(JsonLoads(response[c].body))

\* v has choices[0].message.content
HasShape(v) ==
    /\ v.t = "dict"
    /\ HasKey(v, <<"c", "h", "o", "i", "c", "e", "s">>)
    /\ LET choices == Lookup(v, <<"c", "h", "o", "i", "c", "e", "s">>) IN
       /\ choices.t = "list"
       /\ choices.items # <<>>
       /\ LET first == choices.items[1] IN
          /\ first.t = "dict"
          /\ HasKey(first, <<"m", "e", "s", "s", "a", "g", "e">>)
          /\ LET message == Lookup(first, <<"m", "e", "s", "s", "a", "g", "e">>) IN
             /\ message.t = "dict"
             /\ HasKey(message, <<"c", "o", "n", "t", "e", "n", "t">>)

\* choices[0].message.content of a v that has it
ContentOf(v) == Lookup(Lookup(Lookup(v, <<"c", "h", "o", "i", "c", "e", "s">>).items[1], <<"m", "e", "s", "s", "a", "g", "e">>), <<"c", "o", "n", "t", "e", "n", "t">>)

(***************************************************************************)
(* C14: for every 2xx response whose JSON body is an object without        *)
(* choices[0].message.content (no "choices", an empty "choices" list, a    *)
(* first choice without "message", a message without "content"), building  *)
(* the answer raises nothing and the text of the answer is "No response    *)
(* from LLM.".                                                             *)
(***************************************************************************)
C14_MissingShapeGivesPlaceholder ==
    \A c \in Calls :
        (/\ Returned(c)
         /\ LlmSucceeded(c)
         /\ llm_response[c].t = "dict"
         /\ ~HasShape(llm_response[c]))
            => ret[c] = AgentAnswer(session_id[c], JStr(NO_RESPONSE))

(***************************************************************************)
(* C15: _query_lm_studio gives the parsed body of a response only when the *)
(* status of the response is 2xx, and gives it for every 2xx response with *)
(* a JSON body; a response of any other status (1xx, 3xx, 4xx, 5xx) and a  *)
(* transport failure give the dict of the failed connection.               *)
(***************************************************************************)
C15_SuccessExactlyWhen2xx ==
    \A c \in Calls :
        response[c] # Unset =>
            IF response[c].kind = "http" /\ IsSuccessStatus(response[c].status)
            THEN LlmSucceeded(c) => llm_response[c] = JsonLoads(response[c].body)
            ELSE llm_response[c] = ConnectionError

\* the exchange of the call ended with exit code 0 and JSON on standard output
BridgeOk(c) ==
    /\ ExchangeDone(c)
    /\ proc[c].returncode = 0
    /\ ~IsExc(JsonLoads(proc[c].stdout))

(***************************************************************************)
(* C16: when the bridge succeeded and the LLM's body has a string at       *)
(* choices[0].message.content, process_query returns the answer with the   *)
(* caller's session id, that string as the text and the confidence 0.85,   *)
(* whatever the session id, the prompt and the context.                    *)
(***************************************************************************)
C16_AnswerCarriesContent ==
    \A c \in Calls :
        (/\ Returned(c)
         /\ BridgeOk(c)
         /\ llm_response[c] # Unset
         /\ HasShape(llm_response[c])
         /\ ContentOf(llm_response[c]).t = "str")
            => ret[c] = AgentAnswer(session_id[c], ContentOf(llm_response[c]))

\* the bridge gave {"x": 1}, the LLM an answer with text, and the caller
\* with a context has both in the returned dict
C16_Witness ==
    \E c \in Calls :
        /\ Returned(c)
        /\ BridgeOk(c)
        /\ context[c] = JStr(<<"L", "o", "n", "d", "o", "n">>)
        /\ sirs_output[c] = JDict(<< <<<<"x">>, JNum(1)>> >>)
        /\ ret[c] = AgentAnswer(session_id[c], JStr(<<"I", "t", " ", "w", "i", "l", "l", " ", "r", "a", "i", "n", ".">>))

\* how many times x is in seq
Count(seq, x) == Cardinality({i \in DOMAIN seq : seq[i] = x})

(***************************************************************************)
(* C17: nothing is tried twice: a call of process_query that has ended     *)
(* called execute exactly once and sent exactly one POST to the LLM        *)
(* endpoint, and no call of execute starts the executable more than once,  *)
(* whether the bridge or the LLM call failed or not.                       *)
(***************************************************************************)
C17_ExactlyOneAttemptEach ==
    \A c \in Calls :
        /\ spawned[c] <= 1
        /\ Returned(c) =>
              /\ Count(trace[c], "invoke") = 1
              /\ posts[c] = 1

(***************************************************************************)
(* C18: a call of execute that started its child started it as             *)
(* <executable> --model <model path>; by the time execute returns, the     *)
(* child's standard input has been given exactly json.dumps of the input   *)
(* and closed; and execute looks at the exit code and parses standard      *)
(* output only once the child has exited and its output has been read to   *)
(* the end.                                                                *)
(***************************************************************************)
C18_OneBufferedExchange ==
    \A c \in Calls :
        spawned[c] >= 1 =>
            /\ command[c] = <<SIRS_EXECUTABLE_PATH, <<"-", "-", "m", "o", "d", "e", "l">>, model_path[c]>>
            /\ pc[c] = "classify" => child[c] = "reaped" /\ ExchangeDone(c)
            /\ ExecuteReturned(c) =>
                  /\ child_in[c] # Unset
                  /\ child_in[c].closed
                  /\ JStr(child_in[c].data) = JsonDumps(input_data[c])
                  /\ child[c] = "reaped"

\* everything call c has: its arguments, its locals, its child, its outcome
Frame(c) ==
    <<pc[c], entry[c], session_id[c], prompt[c], context[c], model_path[c],
      input_data[c], exists_calls[c], child[c], spawned[c], stdin[c], proc[c],
      result[c], command[c], caught[c], child_in[c], sirs_output[c],
      llm_prompt[c], llm_response[c], response[c], posts[c], trace[c], ret[c],
      request[c], http_response[c]>>

(***************************************************************************)
(* C19: calls of process_query that overlap do not interfere.  Each call   *)
(* starts at most one child and has a child exactly when it started one;   *)
(* a step of one call changes nothing another call has and nothing they    *)
(* share (the file system; the executable path, the model path and the     *)
(* endpoint are constants no step assigns); and in every interleaving what *)
(* a call holds at each stage is the function of its own arguments, its    *)
(* own child's output and its own LLM reply that the code computes, so     *)
(* that the answer it returns carries its own session id.                  *)
(***************************************************************************)
C19_ConcurrentCallsDoNotInterfere ==
    /\ [](\A c \in Calls :
            /\ spawned[c] <= 1
            /\ (child[c] = "none") <=> (spawned[c] = 0)
            /\ input_data[c] # Unset => input_data[c] = BuildRequest(context[c])
            /\ spawned[c] = 1 => command[c] = Command(SIRS_EXECUTABLE_PATH, AGENT_MODEL_PATH)
            /\ (ExchangeDone(c) /\ ExecuteReturned(c)) =>
                  result[c] = Classify(proc[c].returncode, proc[c].stdout,
                                       proc[c].stderr, SIRS_EXECUTABLE_PATH)
            /\ sirs_output[c] # Unset => sirs_output[c] = result[c]
            /\ llm_prompt[c] # Unset =>
                  llm_prompt[c] = PrepareLlmPrompt(prompt[c], sirs_output[c])
            /\ llm_response[c] # Unset => llm_response[c] = QueryLmStudio(response[c])
            /\ (Returned(c) /\ llm_response[c] # Unset) =>
                  /\ ret[c] = FinalResponse(session_id[c], llm_response[c])
                  /\ ~IsExc(ret[c]) =>
                        Lookup(ret[c], <<"s", "e", "s", "s", "i", "o", "n", "_", "i", "d">>) = JStr(session_id[c]))
    /\ [][/\ fs' = fs
          /\ \A c \in Calls : pc'[c] = pc[c] => Frame(c)' = Frame(c)]_vars

\* two calls with different session ids overlap: one has returned its
\* answer while the child of the other is running
C19_Witness ==
    \E c, d \in Calls :
        /\ c # d
        /\ Returned(c)
        /\ ret[c] = AgentAnswer(session_id[c], JStr(<<"I", "t", " ", "w", "i", "l", "l", " ", "r", "a", "i", "n", ".">>))
        /\ child[c] = "reaped"
        /\ child[d] = "running"
        /\ session_id[d] # <<>>
        /\ session_id[d] # session_id[c]

(***************************************************************************)
(* C20: get_status returns the string "ok" in every reachable state, also  *)
(* after calls of process_query that found no executable, had a failing    *)
(* child or could not reach the LLM, and a call of get_status changes      *)
(* nothing but its own return value.                                       *)
(***************************************************************************)
C20_StatusAlwaysOk ==
    /\ [](\A c \in Calls : entry[c] = "get_status" => ret[c] = JStr(<<"o", "k">>))
    /\ [][\A c \in Calls :
            (entry[c] # "get_status" /\ entry'[c] = "get_status") =>
                /\ UNCHANGED <<fs, queryVars, bridgeVars, agentVars>>
                /\ \A d \in Calls \ {c} :
                      pc'[d] = pc[d] /\ entry'[d] = entry[d] /\ ret'[d] = ret[d]]_vars

\* get_status has answered while the caller of a process_query call that
\* found no executable and could not reach the LLM still holds its answer
C20_Witness ==
    \E c, d \in Calls :
        /\ entry[c] = "get_status"
        /\ pc[c] = "done"
        /\ ret[c] = JStr(<<"o", "k">>)
        /\ Returned(d)
        /\ result[d] = ExecutableMissing(SIRS_EXECUTABLE_PATH)
        /\ llm_response[d] = ConnectionError
        /\ SIRS_EXECUTABLE_PATH \notin fs

(***************************************************************************)
(* The service boundary                                                    *)
(***************************************************************************)
\* C21: a query body that lacks session_id or prompt is answered with the
\* validation error (422, one "Field required" entry per missing field,
\* located in the body), and process_query is never entered for it: no
\* stage runs and no field is bound
C21_MissingFieldRejected ==
    \A c \in Calls :
        (/\ request[c] # Unset
         /\ \E i \in 1..Len(RequiredFields) : ~HasKey(request[c], RequiredFields[i]))
        =>  /\ http_response[c] # Unset
            /\ http_response[c].status = 422
            /\ \A i \in 1..Len(RequiredFields) :
                   ~HasKey(request[c], RequiredFields[i]) =>
                       \E j \in 1..Len(http_response[c].content.members[1][2].items) :
                           http_response[c].content.members[1][2].items[j]
                               = FieldError(RequiredFields[i], <<"F", "i", "e", "l", "d", " ", "r", "e", "q", "u", "i", "r", "e", "d">>)
            /\ entry[c] = "none"
            /\ trace[c] = <<>>
            /\ pc[c] = "done"
            /\ session_id[c] = <<>> /\ prompt[c] = <<>>

\* a body with a session_id and no prompt has been rejected
C21_Witness ==
    \E c \in Calls :
        /\ request[c] = JDict(<< <<<<"s", "e", "s", "s", "i", "o", "n", "_", "i", "d">>, JStr(<<"s", "1">>)>> >>)
        /\ http_response[c] =
               ApiResponse(422, JDict(<< <<<<"d", "e", "t", "a", "i", "l">>,
                   JList(<<FieldError(<<"p", "r", "o", "m", "p", "t">>, <<"F", "i", "e", "l", "d", " ", "r", "e", "q", "u", "i", "r", "e", "d">>)>>)>> >>))
        /\ entry[c] = "none"

(***************************************************************************)
(* C22: composing the LLM prompt is deterministic and pure.  Two calls     *)
(* that hold the same user prompt and the same engine outcome hold the     *)
(* same composed text, character for character, whatever their sessions    *)
(* and the other call's progress are; and the compose step changes         *)
(* nothing but the composing call's own prompt local and position.         *)
(***************************************************************************)
C22_ComposeDeterministicAndPure ==
    /\ [](\A c, d \in Calls :
            (llm_prompt[c] # Unset /\ llm_prompt[d] # Unset
               /\ prompt[c] = prompt[d] /\ sirs_output[c] = sirs_output[d])
            => llm_prompt[c] = llm_prompt[d])
    /\ [][\A c \in Calls :
            (pc[c] = "prepare_llm_prompt" /\ pc'[c] # pc[c]) =>
               /\ UNCHANGED <<fs, entry, queryVars, bridgeVars, sirs_output,
                              llm_response, response, posts, ret, apiVars, cliVars>>
               /\ \A d \in Calls \ {c} : Frame(d)' = Frame(d)]_vars

\* two overlapping calls of different sessions hold the same composed text
C22_Witness ==
    \E c, d \in Calls :
        /\ c # d
        /\ session_id[c] # session_id[d]
        /\ session_id[c] # <<>> /\ session_id[d] # <<>>
        /\ llm_prompt[c] = llm_prompt[d]
        /\ llm_prompt[c] = JStr(<<"U", "s", "e", "r", " ", "P", "r", "o", "m", "p", "t", ":", " ", "W", "h", "a", "t", " ", "i", "s", " ", "t", "h", "e", " ", "w", "e", "a", "t", "h", "e", "r", "?", "\n", "\n", "S", "I", "R", "S", " ", "M", "o", "d", "e", "l", " ", "I", "n", "f", "e", "r", "e", "n", "c", "e", ":", " ", "{", "\"", "x", "\"", ":", " ", "1", "}", "\n", "\n", "B", "a", "s", "e", "d", " ", "o", "n", " ", "t", "h", "e", " ", "p", "r", "o", "b", "a", "b", "i", "l", "i", "s", "t", "i", "c", " ", "i", "n", "f", "e", "r", "e", "n", "c", "e", " ", "a", "b", "o", "v", "e", ",", " ", "p", "r", "o", "v", "i", "d", "e", " ", "a", " ", "c", "o", "m", "p", "r", "e", "h", "e", "n", "s", "i", "v", "e", " ", "a", "n", "s", "w", "e", "r", " ", "t", "o", " ", "t", "h", "e", " ", "u", "s", "e", "r", "'", "s", " ", "p", "r", "o", "m", "p", "t", ".", "\n">>)

\* C23: when the child exited with code 0 and its standard output is no JSON
\* text, the failure execute returns retains the raw output: some string of
\* the returned dict contains the text the child wrote.
C23_MalformedOutputRetainsRawText ==
    \A c \in Calls :
        (ExchangeDone(c) /\ ExecuteReturned(c) /\ proc[c].returncode = 0
           /\ IsExc(JsonLoads(proc[c].stdout)))
        => \E i \in 1..Len(result[c].members) :
               /\ result[c].members[i][2].t = "str"
               /\ IsSubstring(proc[c].stdout, result[c].members[i][2].s)

\* C24: for a body that validates, the endpoint has called process_query
\* once with the body's session_id, prompt and context as they came, and
\* answers 200 with the session_id, response_text and confidence_score the
\* core returned, unchanged.
C24_EndpointPassesThrough ==
    \A c \in Calls :
        (request[c] # Unset /\ http_response[c] # Unset
           /\ ValidationErrors(request[c]) = <<>>) =>
            /\ entry[c] = "process_query"
            /\ Count(trace[c], "build") = 1
            /\ session_id[c] = Lookup(request[c], <<"s", "e", "s", "s", "i", "o", "n", "_", "i", "d">>).s
            /\ prompt[c] = Lookup(request[c], <<"p", "r", "o", "m", "p", "t">>).s
            /\ context[c] = PyGet(request[c], <<"c", "o", "n", "t", "e", "x", "t">>, None)
            /\ ret[c].t = "dict"
            /\ http_response[c].status = 200
            /\ \A i \in 1..Len(ResponseFields) :
                   Lookup(http_response[c].content, ResponseFields[i][1])
                       = Lookup(ret[c], ResponseFields[i][1])

(***************************************************************************)
(* The chat command                                                        *)
(***************************************************************************)
\* C25: chat asks for the agent status exactly once, before its loop, and
\* when the status is anything but "ok" (the connection-error string
\* included) it has returned without reading a prompt and without sending a
\* query: prompts are read and queries sent only after the status "ok".
C25_StatusCheckedOnceBeforeLoop ==
    LET checked == cli_pc \notin {"idle", "status"} IN
    /\ status_calls = (IF checked THEN 1 ELSE 0)
    /\ ~checked => (entered = <<>> /\ queries = <<>>)
    /\ (checked /\ status_result # JStr(<<"o", "k">>)) =>
           /\ cli_pc = "returned"
           /\ entered = <<>>
           /\ queries = <<>>
    /\ (entered # <<>> \/ queries # <<>>) => status_result = JStr(<<"o", "k">>)

\* the status request found no connection and chat returned at once
C25_Witness ==
    /\ cli_pc = "returned"
    /\ status_calls = 1
    /\ status_result = JStr(<<"E", "r", "r", "o", "r", " ", "c", "o", "n", "n", "e", "c", "t", "i", "n", "g", " ", "t", "o", " ", "a", "g", "e", "n", "t", " ", "A", "P", "I", ":", " ", "C", "o", "n", "n", "e", "c", "t", "i", "o", "n", " ", "r", "e", "f", "u", "s", "e", "d">>)
    /\ entered = <<>>
    /\ queries = <<>>
    /\ echoed[Len(echoed)] = <<"A", "g", "e", "n", "t", " ", "s", "e", "r", "v", "i", "c", "e", " ", "i", "s", " ", "n", "o", "t", " ", "a", "v", "a", "i", "l", "a", "b", "l", "e", ".", " ", "P", "l", "e", "a", "s", "e", " ", "s", "t", "a", "r", "t", " ", "t", "h", "e", " ", "s", "e", "r", "v", "i", "c", "e", " ", "f", "i", "r", "s", "t", ".">>

\* C26: in a started session the queries sent are exactly one per entered
\* prompt that is not quit or exit in any letter case, each with the
\* session's id and that prompt, in the order of entry (the prompt whose
\* query is about to be sent excepted); a quit or exit is the last prompt of
\* its session, sends no query and ends the session.
C26_OneQueryPerPromptInOrder ==
    LET spellings == { <<"q", "u", "i", "t">>, <<"Q", "u", "i", "t">>, <<"Q", "U", "I", "T">>, <<"e", "x", "i", "t">>, <<"E", "x", "i", "t">>, <<"E", "X", "I", "T">> }
        handled == IF cli_pc = "query"
                   THEN SubSeq(entered, 1, Len(entered) - 1) ELSE entered
        asked == SelectSeq(handled, LAMBDA p : p \notin spellings)
    IN  /\ queries = [i \in 1..Len(asked) |-> Payload(session, asked[i])]
        /\ \A i \in 1..Len(entered) :
               entered[i] \in spellings => (i = Len(entered) /\ cli_pc = "ended")

\* two prompts were asked and EXIT ended the session
C26_Witness ==
    /\ cli_pc = "ended"
    /\ entered = << <<"h", "e", "l", "l", "o">>, <<"q", "u", "i", "t", "t", "e", "r">>, <<"E", "X", "I", "T">> >>
    /\ queries = << Payload(<<"t", "e", "s", "t", "-", "c", "h", "a", "t", "-", "s", "e", "s", "s", "i", "o", "n">>, <<"h", "e", "l", "l", "o">>),
                    Payload(<<"t", "e", "s", "t", "-", "c", "h", "a", "t", "-", "s", "e", "s", "s", "i", "o", "n">>, <<"q", "u", "i", "t", "t", "e", "r">>) >>

(***************************************************************************)
(* C27: a query whose response carries an "error" key is reported on an    *)
(* "Agent Error" line and the session goes back to its prompt with nothing *)
(* else changed; the loop is left through its break only when the last     *)
(* prompt entered was quit or exit.                                        *)
(***************************************************************************)
C27_FailedQueryKeepsSession ==
    /\ [](cli_pc = "ended" =>
             /\ entered # <<>>
             /\ entered[Len(entered)] \in
                    { <<"q", "u", "i", "t">>, <<"Q", "u", "i", "t">>, <<"Q", "U", "I", "T">>, <<"e", "x", "i", "t">>, <<"E", "x", "i", "t">>, <<"E", "X", "I", "T">> })
    /\ [][(/\ cli_pc = "query"
           /\ cli_response'.t = "dict"
           /\ HasKey(cli_response', <<"e", "r", "r", "o", "r">>)) =>
              /\ cli_pc' = "prompt"
              /\ echoed' = Append(echoed, <<"A", "g", "e", "n", "t", " ", "E", "r", "r", "o", "r", ":", " ">>
                                          \o Lookup(cli_response', <<"e", "r", "r", "o", "r">>).s)
              /\ entered' = entered
              /\ session' = session]_vars

\* a query failed for want of a connection, was reported, and the next
\* prompt was read and asked
C27_Witness ==
    /\ Len(entered) = 2
    /\ Len(queries) = 2
    /\ Len(echoed) >= 3
    /\ echoed[3] = <<"A", "g", "e", "n", "t", " ", "E", "r", "r", "o", "r", ":", " ", "A", "P", "I", " ", "r", "e", "q", "u", "e", "s", "t", " ", "f", "a", "i", "l", "e", "d", ":", " ", "C", "o", "n", "n", "e", "c", "t", "i", "o", "n", " ", "r", "e", "f", "u", "s", "e", "d">>
    /\ cli_pc = "prompt"
=============================================================================
